---- MODULE Spec2Model ----
(***************************************************************************)
(* Keyshare server PIN controller and account console (irmago).            *)
(*                                                                         *)
(* The users row of one account (irma.users) and the clients that call     *)
(* the keyshare database layer on it.  Every SQL statement is one atomic   *)
(* step of the database; a Go method that issues several statements, or    *)
(* reads the clock again after a statement, is a sequence of steps of the  *)
(* calling client, so that other clients and the clock can move between    *)
(* them.  Driver failures (the err != nil returns after Query/Exec/Scan)   *)
(* are not part of the PIN model.                                          *)
(*                                                                         *)
(* The account console redeems e-mail tokens inside database transactions  *)
(* (READ COMMITTED, the default of BeginTx(ctx, nil)): a statement sees    *)
(* the committed rows and its own transaction's writes, a DELETE locks the *)
(* row until its transaction ends, and a second DELETE of that row waits   *)
(* for the lock.  BeginTx and Commit can fail, and so can the DELETE that  *)
(* VerifyEmailToken goes on after; other statement failures are left out.  *)
(***************************************************************************)
EXTENDS Integers, FiniteSets, Sequences, TLC

(***************************************************************************)
(* Program constants.                                                      *)
(***************************************************************************)
MAX_PIN_TRIES == 3

BACKOFF_START == 30

(***************************************************************************)
(* Bounds of the model.                                                    *)
(***************************************************************************)
\* number of concurrent clients of the keyshare database
NProcs == 4

\* unix time of the initial state
Epoch == 1000

\* seconds the clock runs beyond Epoch in the sequential specification
MaxTime == 32

\* largest pin_counter of an account that exists in the initial state
MaxCounter == 5

\* seconds within which a call that has read the clock completes
MaxLag == 1

\* seconds the clock runs beyond Epoch in the concurrent specification
MaxSkew == 1

\* seconds the clock keeps running after the last block date has passed
MaxIdle == 2

Procs == 1..NProcs

\* number of accounts of the console
NUsers == 2

\* number of requests the console receives
NReqs == 2

\* seconds a token of the initial state that is not about to expire stays valid
TokenLife == 3600

Users == 1..NUsers

Reqs == 1..NReqs

\* number of session tokens the console hands out
NSess == 2

\* number of requests and callbacks that are under way at a time
MaxFlight == 2

\* number of rows of one (user_id, email) pair the emails table can hold
MaxRows == 2

\* the session tokens (cookie values)
Sess == 1..NSess

Emails == {"e1", "e2"}

\* the e-mail verification tokens and e-mail login tokens that were issued
VTokens == {"v1"}

LTokens == {"l1"}

\* SQL NULL in a delete_on column
NULL == 0 - 1

\* seconds of the deletion delay a console handler passes (conf.DeleteDelay days)
DeleteDelay == 86400

(***************************************************************************)
(* State.                                                                  *)
(***************************************************************************)
VARIABLES
    now,             \* time.Now().Unix()
    registered,      \* the users row exists
    coredata,        \* coredata IS NOT NULL (FALSE: soft-deleted)
    pin_counter,     \* users.pin_counter
    pin_block_date,  \* users.pin_block_date
    delete_on,       \* users.delete_on
    pc,              \* position of each client in the method it runs
    targ,            \* clock value a client passed as statement argument
    row,             \* column values a client scanned from its last statement
    ret,             \* what the last method returned to each client
    vtokens,         \* irma.email_verification_tokens, committed rows
    ltokens,         \* irma.email_login_tokens, committed rows
    emails,          \* irma.emails: the delete_on of every row of (user_id, email)
    last_seen,       \* users.last_seen
    sessions,        \* the console's session store
    tx,              \* the transaction of each console request
    txdel,           \* token rows a transaction has deleted (and holds locked)
    txseen,          \* the last_seen a transaction has written (and holds locked)
    req,             \* each console request: its input, position, locals, response
    flight,          \* requests and callbacks on a session that are under way
    answer           \* what the client of a session was answered last

\* the state of the account console
console == <<vtokens, ltokens, emails, last_seen, sessions, tx, txdel, txseen, req,
             flight, answer>>

vars == <<now, registered, coredata, pin_counter, pin_block_date, delete_on, pc, targ, row, ret,
          vtokens, ltokens, emails, last_seen, sessions, tx, txdel, txseen, req,
          flight, answer>>

Greatest(a, b) == IF a >= b THEN a ELSE b

RECURSIVE Pow2(_)
Pow2(n) == IF n <= 0 THEN 1 ELSE 2 * Pow2(n - 1)

NoRow == [c |-> 0, b |-> 0]

\* a returned tuple (allowed, tries, wait, err) of method op; at is the clock
\* value the method read last
NoRet == [op |-> "none", allowed |-> FALSE, tries |-> 0, wait |-> 0, err |-> "nil", at |-> 0]

Ret(op, allowed, tries, wait, err) ==
    [op |-> op, allowed |-> allowed, tries |-> tries, wait |-> wait, err |-> err, at |-> now]

\* a console request before it arrives: the handler's locals and what it has
\* written to the client; hb is the set of requests that had ended before
NoReq ==
    [kind |-> "none", pc |-> "idle", token |-> "", username |-> 0, id |-> 0,
     email |-> "", res |-> "pending", err |-> "none", resp |-> "none", hb |-> {}]

NoSeen == [id |-> 0, at |-> 0]

\* no response is on its way to a client
NoAnswer == [sess |-> 0, op |-> "none", body |-> "none"]

\* no console request in progress, no session
ConsoleIdle ==
    /\ last_seen = [u \in Users |-> 0]
    /\ sessions = {}
    /\ tx = [r \in Reqs |-> "none"]
    /\ txdel = [r \in Reqs |-> {}]
    /\ txseen = [r \in Reqs |-> NoSeen]
    /\ req = [r \in Reqs |-> NoReq]
    /\ flight = {}
    /\ answer = NoAnswer

\* The account does not exist yet, or it exists with some earlier failures
\* whose block date has just passed (a fresh or cleared account has 0, 0).
Init ==
    /\ ConsoleIdle
    /\ delete_on = NULL
    /\ vtokens = [t \in VTokens |-> [live |-> FALSE, user_id |-> 1, email |-> "e2", expiry |-> 0]]
    /\ ltokens = [t \in LTokens |-> [live |-> FALSE, email |-> "e1", expiry |-> 0]]
    /\ emails = [u \in Users |-> [e \in Emails |-> <<>>]]
    /\ now = Epoch
    /\ \/ /\ registered = FALSE
          /\ coredata = FALSE
          /\ pin_counter = 0
          /\ pin_block_date = 0
       \/ /\ registered = TRUE
          /\ coredata = TRUE
          /\ pin_counter \in 0..MaxCounter
          /\ pin_block_date = IF pin_counter = 0 THEN 0 ELSE Epoch - 1
    /\ pc = [p \in Procs |-> "idle"]
    /\ targ = [p \in Procs |-> 0]
    /\ row = [p \in Procs |-> NoRow]
    /\ ret = [p \in Procs |-> NoRet]

(***************************************************************************)
(* The clock.  It advances by seconds up to the horizon h.  It stops       *)
(* MaxIdle seconds after the account's block date has passed (idle time in *)
(* which no row changes is not enumerated), and a call completes within    *)
(* MaxLag seconds of its first reading the clock.                          *)
(***************************************************************************)
Tick(h) ==
    /\ now < Epoch + h
    /\ now < Greatest(Epoch, pin_block_date + 1) + MaxIdle
    /\ \A p \in Procs : pc[p] = "idle" \/ now - targ[p] < MaxLag
    /\ now' = now + 1
    /\ UNCHANGED <<registered, coredata, pin_counter, pin_block_date, pc, targ, row, ret>>
    /\ UNCHANGED <<delete_on, console>>

(***************************************************************************)
(* A client takes the result of the method it called.                      *)
(***************************************************************************)
Return(p, r) ==
    /\ ret' = [ret EXCEPT ![p] = r]
    /\ pc' = [pc EXCEPT ![p] = "done"]

Done(p) ==
    /\ pc[p] = "done"
    /\ pc' = [pc EXCEPT ![p] = "idle"]
    /\ ret' = [ret EXCEPT ![p] = NoRet]
    /\ row' = [row EXCEPT ![p] = NoRow]
    /\ targ' = [targ EXCEPT ![p] = 0]
    /\ UNCHANGED <<now, registered, coredata, pin_counter, pin_block_date>>
    /\ UNCHANGED <<delete_on, console>>

\* a client calls a method: its arguments are evaluated, the clock is read
Call(p, method) ==
    /\ pc[p] = "idle"
    /\ pc' = [pc EXCEPT ![p] = method]
    /\ targ' = [targ EXCEPT ![p] = now]
    /\ UNCHANGED <<now, registered, coredata, pin_counter, pin_block_date, row, ret>>
    /\ UNCHANGED <<delete_on, console>>

(***************************************************************************)
(* NewUser: INSERT ... pin_counter 0, pin_block_date 0.                    *)
(***************************************************************************)
NewUserCall(p) == Call(p, "newuser")

NewUser(p) ==
    /\ pc[p] = "newuser"
    /\ IF registered
       THEN /\ Return(p, Ret("NewUser", FALSE, 0, 0, "ErrUserAlreadyExists"))
            /\ UNCHANGED <<registered, coredata, pin_counter, pin_block_date>>
       ELSE /\ registered' = TRUE
            /\ coredata' = TRUE
            /\ pin_counter' = 0
            /\ pin_block_date' = 0
            /\ Return(p, Ret("NewUser", FALSE, 0, 0, "nil"))
    /\ UNCHANGED <<now, targ, row>>
    /\ UNCHANGED <<delete_on, console>>

(***************************************************************************)
(* ReservePincheck.                                                        *)
(***************************************************************************)
\* mutant: the WHERE clause does not test the block date
MutPinUpdateWhereNoBlock(t) == registered /\ coredata

\* WHERE id=$4 AND pin_block_date<=$5 AND coredata IS NOT NULL
PinUpdateWhere(t) == registered /\ coredata /\ pin_block_date <= t

\* mutant: the counter is written from a value read before the statement
\* (read-then-write: every client read 0)
MutPinCounterSetStale == 0 + 1

\* mutant: the counter stops at the last free try
MutPinCounterSetCapped ==
    IF pin_counter < MAX_PIN_TRIES - 1 THEN pin_counter + 1 ELSE pin_counter

\* SET pin_counter = pin_counter+1
PinCounterSet == pin_counter + 1

\* mutant: the exponent is taken from the incremented counter
MutPinBlockDateSetPost(t) ==
    (t - 1 - BACKOFF_START)
        + BACKOFF_START * Pow2(Greatest(0, (pin_counter + 1) - (MAX_PIN_TRIES - 2)))

\* mutant: $3 is MAX_PIN_TRIES-3, the backoff starts one try early
MutPinBlockDateSetEarly(t) ==
    (t - 1 - BACKOFF_START)
        + BACKOFF_START * Pow2(Greatest(0, pin_counter - (MAX_PIN_TRIES - 3)))

\* mutant: the backoff grows linearly
MutPinBlockDateSetLinear(t) ==
    (t - 1 - BACKOFF_START)
        + BACKOFF_START * (1 + Greatest(0, pin_counter - (MAX_PIN_TRIES - 2)))

\* mutant: $1 is time.Now().Unix(), the base is not moved into the past
MutPinBlockDateSetFromNow(t) ==
    t + BACKOFF_START * Pow2(Greatest(0, pin_counter - (MAX_PIN_TRIES - 2)))

\* SET pin_block_date = $1+$2*2^GREATEST(0, pin_counter-$3), with
\* $1 = time.Now().Unix()-1-BACKOFF_START, $2 = BACKOFF_START, $3 = MAX_PIN_TRIES-2
PinBlockDateSet(t) ==
    (t - 1 - BACKOFF_START)
        + BACKOFF_START * Pow2(Greatest(0, pin_counter - (MAX_PIN_TRIES - 2)))

\* the statement arguments are evaluated: the client reads the clock
ReservePincheckCall(p) == registered /\ Call(p, "update")

\* the conditional UPDATE ... RETURNING pin_counter, pin_block_date
ReservePincheckUpdate(p) ==
    /\ pc[p] = "update"
    /\ IF PinUpdateWhere(targ[p])
       THEN /\ pin_counter' = PinCounterSet
            /\ pin_block_date' = PinBlockDateSet(targ[p])
            /\ row' = [row EXCEPT ![p] = [c |-> pin_counter', b |-> pin_block_date']]
            /\ pc' = [pc EXCEPT ![p] = "scan"]
       ELSE /\ pc' = [pc EXCEPT ![p] = "select"]
            /\ UNCHANGED <<pin_counter, pin_block_date, row>>
    /\ UNCHANGED <<now, registered, coredata, targ, ret>>
    /\ UNCHANGED <<delete_on, console>>

\* mutant: the SELECT does not test coredata
MutPinSelectWhereDeleted == registered

\* SELECT pin_block_date FROM irma.users WHERE id=$1 AND coredata IS NOT NULL
PinSelectWhere == registered /\ coredata

\* no row was updated: the block date is read, or the user is not found
ReservePincheckSelect(p) ==
    /\ pc[p] = "select"
    /\ IF PinSelectWhere
       THEN /\ row' = [row EXCEPT ![p] = [c |-> 0, b |-> pin_block_date]]
            /\ pc' = [pc EXCEPT ![p] = "wait"]
            /\ UNCHANGED ret
       ELSE /\ Return(p, Ret("ReservePincheck", FALSE, 0, 0, "ErrUserNotFound"))
            /\ UNCHANGED row
    /\ UNCHANGED <<now, registered, coredata, pin_counter, pin_block_date, targ>>
    /\ UNCHANGED <<delete_on, console>>

\* wait = wait - time.Now().Unix(); if wait < 0 { wait = 0 }
WaitSeconds(b) == Greatest(0, b - now)

\* tries = MAX_PIN_TRIES - tries; if tries < 0 { tries = 0 }
TriesRemaining(c) == Greatest(0, MAX_PIN_TRIES - c)

\* return false, 0, wait, nil
ReservePincheckBlocked(p) ==
    /\ pc[p] = "wait"
    /\ Return(p, Ret("ReservePincheck", FALSE, 0, WaitSeconds(row[p].b), "nil"))
    /\ UNCHANGED <<now, registered, coredata, pin_counter, pin_block_date, targ, row>>
    /\ UNCHANGED <<delete_on, console>>

\* return true, tries, wait, nil
ReservePincheckAllowed(p) ==
    /\ pc[p] = "scan"
    /\ Return(p, Ret("ReservePincheck", TRUE, TriesRemaining(row[p].c),
                     WaitSeconds(row[p].b), "nil"))
    /\ UNCHANGED <<now, registered, coredata, pin_counter, pin_block_date, targ, row>>
    /\ UNCHANGED <<delete_on, console>>

ReservePincheck(p) ==
    \/ ReservePincheckCall(p)
    \/ ReservePincheckUpdate(p)
    \/ ReservePincheckSelect(p)
    \/ ReservePincheckBlocked(p)
    \/ ReservePincheckAllowed(p)

(***************************************************************************)
(* ClearPincheck: UPDATE irma.users SET pin_counter=0, pin_block_date=0    *)
(* WHERE id=$1; zero rows affected is ErrUserNotFound.                     *)
(***************************************************************************)
ClearPincheckCall(p) == registered /\ Call(p, "clear")

\* mutant: only the counter is reset
MutClearPincheckCounterOnly(p) ==
    /\ pc[p] = "clear"
    /\ pin_counter' = 0
    /\ Return(p, Ret("ClearPincheck", FALSE, 0, 0, "nil"))
    /\ UNCHANGED <<now, registered, coredata, pin_block_date, targ, row>>
    /\ UNCHANGED <<delete_on, console>>

ClearPincheck(p) ==
    /\ pc[p] = "clear"
    /\ pin_counter' = 0
    /\ pin_block_date' = 0
    /\ Return(p, Ret("ClearPincheck", FALSE, 0, 0, "nil"))
    /\ UNCHANGED <<now, registered, coredata, targ, row>>
    /\ UNCHANGED <<delete_on, console>>

(***************************************************************************)
(* RemoveUser (account console): UPDATE irma.users SET coredata = NULL,    *)
(* delete_on = $2 WHERE id = $1 AND coredata IS NOT NULL; ExecUser turns   *)
(* an affected-row count other than 1 into ErrUserNotFound.                *)
(***************************************************************************)
RemoveUserCall(p) == registered /\ Call(p, "remove")

\* mutant: the WHERE clause does not test coredata
MutRemoveUserWhereAny == registered

\* WHERE id = $1 AND coredata IS NOT NULL
RemoveUserWhere == registered /\ coredata

\* $2 is time.Now().Add(delay).Unix(), read when the method is called
RemoveUser(p) ==
    /\ pc[p] = "remove"
    /\ IF RemoveUserWhere
       THEN /\ coredata' = FALSE
            /\ delete_on' = targ[p] + DeleteDelay
            /\ Return(p, Ret("RemoveUser", FALSE, 0, 0, "nil"))
       ELSE /\ UNCHANGED <<coredata, delete_on>>
            /\ Return(p, Ret("RemoveUser", FALSE, 0, 0, "ErrUserNotFound"))
    /\ UNCHANGED <<now, registered, pin_counter, pin_block_date, targ, row>>
    /\ UNCHANGED console

(***************************************************************************)
(* Specifications.                                                         *)
(***************************************************************************)
\* one client, one method at a time
NextSeq ==
    \/ Tick(MaxTime)
    \/ NewUserCall(1)
    \/ NewUser(1)
    \/ ReservePincheck(1)
    \/ ClearPincheckCall(1)
    \/ ClearPincheck(1)
    \/ RemoveUserCall(1)
    \/ RemoveUser(1)
    \/ Done(1)

SpecSeq == Init /\ [][NextSeq]_vars

\* the account exists with no failed attempt
InitConc ==
    /\ Init
    /\ registered
    /\ pin_counter = 0

\* concurrent clients, each calling ReservePincheck once; the clients are
\* interchangeable, so they are numbered in the order of their calls
NextConc ==
    \/ Tick(MaxSkew)
    \/ \E p \in Procs :
          \/ (\A q \in Procs : q < p => pc[q] # "idle") /\ ReservePincheckCall(p)
          \/ ReservePincheckUpdate(p)
          \/ ReservePincheckSelect(p)
          \/ ReservePincheckBlocked(p)
          \/ ReservePincheckAllowed(p)

SpecConc == InitConc /\ [][NextConc]_vars

(***************************************************************************)
(* Account console: redemption of e-mail tokens.                           *)
(***************************************************************************)
\* the state of the PIN controller
pin == <<registered, coredata, pin_counter, pin_block_date, delete_on, pc, targ, row, ret>>

\* w.WriteHeader: the first status written is the one the client receives
Written(r, status) == IF req[r].resp = "none" THEN status ELSE req[r].resp

\* a transaction of another request that has not ended has deleted row t
Locked(r, t) ==
    \E q \in Reqs \ {r} : tx[q] \in {"open", "aborted"} /\ t \in txdel[q]

\* a transaction of another request that has not ended has updated users row u
SeenLocked(r, u) ==
    \E q \in Reqs \ {r} : tx[q] \in {"open", "aborted"} /\ txseen[q].id = u

\* the token row exists for a statement of request r
VisibleV(r, t) == vtokens[t].live /\ t \notin txdel[r]

VisibleL(r, t) == ltokens[t].live /\ t \notin txdel[r]

\* (emails.delete_on >= $3 OR emails.delete_on IS NULL)
ActiveEmail(d) == d = NULL \/ d >= now

\* a request arrives and its body is parsed; the requests are numbered in
\* the order of their arrival
Arrive(r, kind, t, u) ==
    /\ req[r].pc = "idle"
    /\ \A q \in Reqs : q < r => req[q].pc # "idle"
    /\ req' = [req EXCEPT ![r] = [NoReq EXCEPT !.kind = kind, !.pc = "begin",
                                                !.token = t, !.username = u,
                                                !.hb = {q \in Reqs : req[q].pc = "end"}]]
    /\ UNCHANGED <<now, pin, flight, answer, vtokens, ltokens, emails, last_seen, sessions, tx, txdel, txseen>>

\* POST /verify with a token
handleVerifyEmail(r, t) == Arrive(r, "verify", t, 0)

\* POST /login/token with a token and a username
handleTokenLogin(r, t, u) == Arrive(r, "login", t, u)

(***************************************************************************)
(* Tx: begin, run the callback, roll back when it returned an error,       *)
(* commit otherwise.  handleVerifyEmail goes on to SetSeen after Tx.       *)
(***************************************************************************)
AfterTx(r) == IF req[r].kind = "verify" THEN "seen" ELSE "end"

TxBegin(r) ==
    /\ req[r].pc = "begin"
    /\ \/ /\ tx' = [tx EXCEPT ![r] = "open"]
          /\ req' = [req EXCEPT ![r].pc = IF req[r].kind = "verify" THEN "vselect"
                                          ELSE IF req[r].kind = "email" THEN "eselect"
                                          ELSE "lselect"]
       \/ /\ tx' = [tx EXCEPT ![r] = "nobegin"]
          /\ req' = [req EXCEPT ![r].pc = AfterTx(r), ![r].resp = Written(r, "Internal")]
    /\ UNCHANGED <<now, pin, flight, answer, vtokens, ltokens, emails, last_seen, sessions, txdel, txseen>>

\* the verification token rows after the transaction of r has committed
CommittedV(r) ==
    [t \in VTokens |-> IF t \in txdel[r] THEN [vtokens[t] EXCEPT !.live = FALSE]
                                         ELSE vtokens[t]]

\* the login token rows after the transaction of r has committed: its
\* deleted row is gone, the row it inserted is there
CommittedL(r) ==
    [t \in LTokens |-> IF t \in txdel[r] THEN [ltokens[t] EXCEPT !.live = FALSE]
                       ELSE IF req[r].kind = "email" /\ req[r].token = t
                            THEN [ltokens[t] EXCEPT !.live = TRUE]
                       ELSE ltokens[t]]

\* tx.Commit(): the writes become the committed rows, or the commit fails
\* and they are discarded; the error is written after the callback's header
TxCommit(r) ==
    /\ req[r].pc = "commit"
    /\ \/ /\ tx[r] = "open"
          /\ tx' = [tx EXCEPT ![r] = "committed"]
          /\ vtokens' = CommittedV(r)
          /\ ltokens' = CommittedL(r)
          /\ last_seen' = IF txseen[r].id \in Users
                          THEN [last_seen EXCEPT ![txseen[r].id] = txseen[r].at]
                          ELSE last_seen
          /\ req' = [req EXCEPT ![r].pc = AfterTx(r)]
       \/ /\ tx[r] \in {"open", "aborted"}
          /\ tx' = [tx EXCEPT ![r] = "failed"]
          /\ req' = [req EXCEPT ![r].pc = AfterTx(r), ![r].resp = Written(r, "Internal")]
          /\ UNCHANGED <<vtokens, ltokens, last_seen>>
    /\ txdel' = [txdel EXCEPT ![r] = {}]
    /\ txseen' = [txseen EXCEPT ![r] = NoSeen]
    /\ UNCHANGED <<now, pin, flight, answer, emails, sessions>>

\* mutant: the error is written and the transaction is left as it is
MutTxRollbackLeavesOpen(r) ==
    /\ req[r].pc = "rollback"
    /\ req' = [req EXCEPT ![r].pc = AfterTx(r), ![r].resp = Written(r, req[r].err)]
    /\ UNCHANGED <<now, pin, flight, answer, vtokens, ltokens, emails, last_seen, sessions, tx, txdel, txseen>>

\* tx.Rollback(); server.WriteError(w, e, msg)
TxRollback(r) ==
    /\ req[r].pc = "rollback"
    /\ tx' = [tx EXCEPT ![r] = "rolledback"]
    /\ txdel' = [txdel EXCEPT ![r] = {}]
    /\ txseen' = [txseen EXCEPT ![r] = NoSeen]
    /\ req' = [req EXCEPT ![r].pc = AfterTx(r), ![r].resp = Written(r, req[r].err)]
    /\ UNCHANGED <<now, pin, flight, answer, vtokens, ltokens, emails, last_seen, sessions>>

(***************************************************************************)
(* VerifyEmailToken, called by the callback of handleVerifyEmail.          *)
(***************************************************************************)
\* SELECT user_id, email FROM irma.email_verification_tokens
\* WHERE token = $1 AND expiry >= $2; no row is ErrTokenNotFound
VerifyEmailTokenSelect(r) ==
    /\ req[r].pc = "vselect"
    /\ LET t == req[r].token IN
       IF VisibleV(r, t) /\ vtokens[t].expiry >= now
       THEN req' = [req EXCEPT ![r].id = vtokens[t].user_id,
                               ![r].email = vtokens[t].email,
                               ![r].pc = "addupdate"]
       ELSE req' = [req EXCEPT ![r].res = "ErrTokenNotFound",
                               ![r].err = "InvalidRequest",
                               ![r].pc = "rollback"]
    /\ UNCHANGED <<now, pin, flight, answer, vtokens, ltokens, emails, last_seen, sessions, tx, txdel, txseen>>

\* UPDATE irma.emails SET delete_on = NULL WHERE user_id = $1 AND email = $2
EmailsRestored(u, e) ==
    [emails EXCEPT ![u][e] = [i \in 1..Len(emails[u][e]) |-> NULL]]

\* mutant: AddEmail falls back to the INSERT whatever the UPDATE affected
MutAddEmailNeverRestored(u, e) == FALSE

\* if aff == 1 { return nil }
AddEmailRestored(u, e) == Len(emails[u][e]) = 1

\* INSERT INTO irma.emails (user_id, email) VALUES ($1, $2)
EmailsInserted(u, e) == [emails EXCEPT ![u][e] = Append(@, NULL)]

\* UPDATE irma.emails SET delete_on = $3 WHERE user_id = $1 AND email = $2
\* AND delete_on IS NULL
EmailsRemoved(u, e, d) ==
    [emails EXCEPT ![u][e] = [i \in 1..Len(emails[u][e]) |->
                                 IF emails[u][e][i] = NULL THEN d ELSE emails[u][e][i]]]

\* AddEmail, outside the transaction (tx is nil): the UPDATE
AddEmailUpdate(r) ==
    /\ req[r].pc = "addupdate"
    /\ LET u == req[r].id
           e == req[r].email
       IN  /\ emails' = EmailsRestored(u, e)
           /\ req' = [req EXCEPT ![r].pc = IF AddEmailRestored(u, e) THEN "vdelete"
                                                                     ELSE "addinsert"]
    /\ UNCHANGED <<now, pin, flight, answer, vtokens, ltokens, last_seen, sessions, tx, txdel, txseen>>

\* AddEmail: the INSERT
AddEmailInsert(r) ==
    /\ req[r].pc = "addinsert"
    /\ emails' = EmailsInserted(req[r].id, req[r].email)
    /\ req' = [req EXCEPT ![r].pc = "vdelete"]
    /\ UNCHANGED <<now, pin, flight, answer, vtokens, ltokens, last_seen, sessions, tx, txdel, txseen>>

\* DELETE FROM irma.email_verification_tokens WHERE token = $1, in the
\* transaction.  A failed statement (the transaction is aborted) and an
\* affected-row count other than 1 are logged: return id, nil.
VerifyEmailTokenDelete(r) ==
    /\ req[r].pc = "vdelete"
    /\ ~Locked(r, req[r].token)
    /\ \/ /\ txdel' = [txdel EXCEPT ![r] = IF VisibleV(r, req[r].token)
                                           THEN @ \cup {req[r].token} ELSE @]
          /\ UNCHANGED tx
       \/ /\ tx' = [tx EXCEPT ![r] = "aborted"]
          /\ UNCHANGED txdel
    /\ req' = [req EXCEPT ![r].res = "ok", ![r].pc = "vsession"]
    /\ UNCHANGED <<now, pin, flight, answer, vtokens, ltokens, emails, last_seen, sessions, txseen>>

\* the session record s.store.create() makes, with token r, then logged in
\* as id (0: userID is nil)
NewSession(r, id) == [token |-> r, userID |-> id, pendingError |-> "nil"]

\* session := s.store.create(); session.userID = &id; s.setCookie;
\* w.WriteHeader(http.StatusNoContent)
handleVerifyEmailRespond(r) ==
    /\ req[r].pc = "vsession"
    /\ sessions' = sessions \cup {NewSession(r, req[r].id)}
    /\ req' = [req EXCEPT ![r].resp = Written(r, "204"), ![r].pc = "commit"]
    /\ UNCHANGED <<now, pin, flight, answer, vtokens, ltokens, emails, last_seen, tx, txdel, txseen>>

\* s.db.SetSeen(nil, id) after Tx, whatever Tx did; id is 0 when
\* VerifyEmailToken was not called or failed: no row, logged
handleVerifyEmailSetSeen(r) ==
    /\ req[r].pc = "seen"
    /\ ~SeenLocked(r, req[r].id)
    /\ last_seen' = IF req[r].id \in Users THEN [last_seen EXCEPT ![req[r].id] = now]
                                           ELSE last_seen
    /\ req' = [req EXCEPT ![r].pc = "end"]
    /\ UNCHANGED <<now, pin, flight, answer, vtokens, ltokens, emails, sessions, tx, txdel, txseen>>

(***************************************************************************)
(* TryUserLoginToken, called by processTokenLogin in the callback of       *)
(* handleTokenLogin.                                                       *)
(***************************************************************************)
\* mutant: the SELECT joins the token's e-mail with the rows of any user
MutTryUserLoginTokenSelectAnyUser(r) ==
    /\ req[r].pc = "lselect"
    /\ LET t == req[r].token
           u == req[r].username
       IN  IF /\ VisibleL(r, t) /\ ltokens[t].expiry >= now
              /\ \E v \in Users : \E i \in 1..Len(emails[v][ltokens[t].email]) :
                    ActiveEmail(emails[v][ltokens[t].email][i])
           THEN req' = [req EXCEPT ![r].id = u, ![r].pc = "ldelete"]
           ELSE req' = [req EXCEPT ![r].res = "ErrUserNotFound",
                                   ![r].err = "InvalidRequest",
                                   ![r].pc = "rollback"]
    /\ UNCHANGED <<now, pin, flight, answer, vtokens, ltokens, emails, last_seen, sessions, tx, txdel, txseen>>

\* SELECT users.id FROM irma.users INNER JOIN irma.emails ... WHERE
\* username = $1 AND (delete_on >= $3 OR delete_on IS NULL) AND email =
\* (SELECT email FROM irma.email_login_tokens WHERE token = $2 AND expiry >= $3)
TryUserLoginTokenSelect(r) ==
    /\ req[r].pc = "lselect"
    /\ LET t == req[r].token
           u == req[r].username
           rows == IF VisibleL(r, t) /\ ltokens[t].expiry >= now
                   THEN emails[u][ltokens[t].email] ELSE <<>>
       IN  IF \E i \in 1..Len(rows) : ActiveEmail(rows[i])
           THEN req' = [req EXCEPT ![r].id = u, ![r].pc = "ldelete"]
           ELSE req' = [req EXCEPT ![r].res = "ErrUserNotFound",
                                   ![r].err = "InvalidRequest",
                                   ![r].pc = "rollback"]
    /\ UNCHANGED <<now, pin, flight, answer, vtokens, ltokens, emails, last_seen, sessions, tx, txdel, txseen>>

\* DELETE FROM irma.email_login_tokens WHERE token = $1, in the transaction;
\* an affected-row count other than 1 is an error
TryUserLoginTokenDelete(r) ==
    /\ req[r].pc = "ldelete"
    /\ ~Locked(r, req[r].token)
    /\ IF VisibleL(r, req[r].token)
       THEN /\ txdel' = [txdel EXCEPT ![r] = @ \cup {req[r].token}]
            /\ req' = [req EXCEPT ![r].res = "ok", ![r].pc = "lsession"]
       ELSE /\ UNCHANGED txdel
            /\ req' = [req EXCEPT ![r].res = "error", ![r].err = "Internal",
                                  ![r].id = 0, ![r].pc = "rollback"]
    /\ UNCHANGED <<now, pin, flight, answer, vtokens, ltokens, emails, last_seen, sessions, tx, txseen>>

\* session := s.store.create(); session.userID = &id
processTokenLoginCreate(r) ==
    /\ req[r].pc = "lsession"
    /\ sessions' = sessions \cup {NewSession(r, req[r].id)}
    /\ req' = [req EXCEPT ![r].pc = "lseen"]
    /\ UNCHANGED <<now, pin, flight, answer, vtokens, ltokens, emails, last_seen, tx, txdel, txseen>>

\* s.db.SetSeen(tx, id) in the transaction; then the callback sets the
\* cookie and writes http.StatusNoContent
processTokenLoginSetSeen(r) ==
    /\ req[r].pc = "lseen"
    /\ ~SeenLocked(r, req[r].id)
    /\ txseen' = [txseen EXCEPT ![r] = [id |-> req[r].id, at |-> now]]
    /\ req' = [req EXCEPT ![r].resp = Written(r, "204"), ![r].pc = "commit"]
    /\ UNCHANGED <<now, pin, flight, answer, vtokens, ltokens, emails, last_seen, sessions, tx, txdel>>

(***************************************************************************)
(* The console with the tokens that were issued: a verification token of   *)
(* user 1 for e2 and a login token for e1, each about to expire or not.    *)
(* User 1 has e1, may have e2 scheduled for deletion; user 2 may have e1.  *)
(***************************************************************************)
InitTok ==
    /\ now = Epoch
    /\ registered = TRUE
    /\ coredata = TRUE
    /\ pin_counter = 0
    /\ pin_block_date = 0
    /\ delete_on = NULL
    /\ pc = [p \in Procs |-> "idle"]
    /\ targ = [p \in Procs |-> 0]
    /\ row = [p \in Procs |-> NoRow]
    /\ ret = [p \in Procs |-> NoRet]
    /\ ConsoleIdle
    /\ \E x \in {Epoch, Epoch + TokenLife} :
          vtokens = [t \in VTokens |->
                        [live |-> TRUE, user_id |-> 1, email |-> "e2", expiry |-> x]]
    /\ \E y \in {Epoch, Epoch + TokenLife} :
          ltokens = [t \in LTokens |-> [live |-> TRUE, email |-> "e1", expiry |-> y]]
    /\ \E d \in {<<>>, <<Epoch + TokenLife>>}, s \in {<<>>, <<NULL>>} :
          emails = [u \in Users |-> [e \in Emails |->
                       IF u = 1 /\ e = "e1" THEN <<NULL>>
                       ELSE IF u = 1 /\ e = "e2" THEN d
                       ELSE IF u = 2 /\ e = "e1" THEN s
                       ELSE <<>>]]

NextTok ==
    \/ Tick(MaxSkew)
    \/ \E r \in Reqs :
          \/ \E t \in VTokens : handleVerifyEmail(r, t)
          \/ \E t \in LTokens, u \in Users : handleTokenLogin(r, t, u)
          \/ TxBegin(r)
          \/ VerifyEmailTokenSelect(r)
          \/ AddEmailUpdate(r)
          \/ AddEmailInsert(r)
          \/ VerifyEmailTokenDelete(r)
          \/ handleVerifyEmailRespond(r)
          \/ TryUserLoginTokenSelect(r)
          \/ TryUserLoginTokenDelete(r)
          \/ processTokenLoginCreate(r)
          \/ processTokenLoginSetSeen(r)
          \/ TxCommit(r)
          \/ TxRollback(r)
          \/ handleVerifyEmailSetSeen(r)

SpecTok == InitTok /\ [][NextTok]_vars

(***************************************************************************)
(* Account console: sessions.  A handler reads the session's userID before *)
(* it takes the session's mutex; what it does holding the mutex is one     *)
(* step when it issues at most one statement, and the mutex stays held     *)
(* between the two statements of AddEmail and of processRemoveEmail.  The  *)
(* IRMA server and the mail server are outside the model: StartSession     *)
(* succeeds and conf.EmailServer is empty.                                 *)
(***************************************************************************)
\* the user whose users row is modelled
Account == 1

\* the token tables and the transactions of the token requests
tok == <<vtokens, ltokens, tx, txdel, txseen, req>>

\* the PIN controller's state but the columns RemoveUser writes
pinrest == <<registered, pin_counter, pin_block_date, pc, targ, row, ret>>

HasSession(k) == \E s \in sessions : s.token = k

\* s.store.get(token)
Session(k) == CHOOSE s \in sessions : s.token = k

\* not (session == nil || session.userID == nil)
LoggedIn(k) == HasSession(k) /\ Session(k).userID # 0

SetSession(k, userID, pendingError) ==
    {IF s.token = k THEN [s EXCEPT !.userID = userID, !.pendingError = pendingError]
                    ELSE s : s \in sessions}

\* a request or callback on session k: waiting for the mutex ("lock"), a
\* callback that has not come yet ("fire"), or holding the mutex before its
\* second statement ("insert", "remove")
InFlight(k, op, arg, at) == [sess |-> k, op |-> op, arg |-> arg, at |-> at]

\* session.Lock() is held
SessLocked(k) == \E f \in flight : f.sess = k /\ f.at \in {"insert", "remove"}

\* a handler that has the mutex of k and can write its response
Holds(k, op, arg) ==
    /\ InFlight(k, op, arg, "lock") \in flight
    /\ ~SessLocked(k)
    /\ answer = NoAnswer

Respond(k, op, body) == answer' = [sess |-> k, op |-> op, body |-> body]

\* the client takes the response
Deliver ==
    /\ answer # NoAnswer
    /\ answer' = NoAnswer
    /\ UNCHANGED <<now, pin, tok, emails, last_seen, sessions, flight>>

\* SELECT id FROM irma.users WHERE username = $1
UserIDWhere(username) == username = Account /\ registered

\* POST /login/irma: a session is created and an IRMA session started whose
\* result will come to processLoginIrmaSessionResult
handleIrmaLogin(k) ==
    /\ ~HasSession(k)
    /\ \A j \in Sess : j < k => HasSession(j)
    /\ answer = NoAnswer
    /\ Cardinality(flight) < MaxFlight
    /\ sessions' = sessions \cup {NewSession(k, 0)}
    /\ flight' = flight \cup {InFlight(k, "login", "", "fire")}
    /\ Respond(k, "irmalogin", "qr")
    /\ UNCHANGED <<now, pin, tok, emails, last_seen>>

\* the callback of the login disclosure, holding the session's mutex
processLoginIrmaSessionResult(k, result, username) ==
    /\ InFlight(k, "login", "", "fire") \in flight
    /\ ~SessLocked(k)
    /\ flight' = flight \ {InFlight(k, "login", "", "fire")}
    /\ CASE result = "notdone" -> UNCHANGED <<sessions, last_seen>>
         [] result = "invalid" ->
               /\ sessions' = SetSession(k, Session(k).userID, "InvalidProofs")
               /\ UNCHANGED last_seen
         [] result = "valid" ->
               IF UserIDWhere(username)
               THEN /\ sessions' = SetSession(k, Account, Session(k).pendingError)
                    /\ last_seen' = [last_seen EXCEPT ![Account] = now]
               ELSE /\ sessions' = SetSession(k, Session(k).userID, "UserNotRegistered")
                    /\ UNCHANGED last_seen
    /\ UNCHANGED <<now, pin, tok, emails, answer>>

\* POST /checksession: no session or userID nil is "expired" at once
handleCheckSessionStart(k) ==
    /\ answer = NoAnswer
    /\ IF LoggedIn(k)
       THEN /\ Cardinality(flight) < MaxFlight
            /\ flight' = flight \cup {InFlight(k, "check", "", "lock")}
            /\ UNCHANGED answer
       ELSE /\ Respond(k, "check", "expired")
            /\ UNCHANGED flight
    /\ UNCHANGED <<now, pin, tok, emails, last_seen, sessions>>

\* mutant: the pending error is returned but stays in the slot
MutCheckSessionKeeps(k) == sessions

\* session.pendingError = nil; session.pendingErrorMessage = ""
CheckSessionCleared(k) == SetSession(k, Session(k).userID, "nil")

\* holding the mutex: the pending error, else "expired", else "ok"
handleCheckSession(k) ==
    /\ Holds(k, "check", "")
    /\ flight' = flight \ {InFlight(k, "check", "", "lock")}
    /\ IF Session(k).pendingError # "nil"
       THEN /\ Respond(k, "check", Session(k).pendingError)
            /\ sessions' = CheckSessionCleared(k)
       ELSE /\ Respond(k, "check", IF Session(k).userID = 0 THEN "expired" ELSE "ok")
            /\ UNCHANGED sessions
    /\ UNCHANGED <<now, pin, tok, emails, last_seen>>

\* the addresses the clients of the console disclose and ask to remove
Disclosed == {"e1"}

\* the handlers behind sessionMiddleware and the argument of their request
Guarded ==
    {<<"userinfo", "">>, <<"deleteuser", "">>, <<"addemail", "">>}
        \cup {<<"removeemail", e>> : e \in Disclosed}

\* sessionMiddleware: no session or userID nil is "not logged in"; else the
\* handler runs once the mutex is taken
sessionMiddleware(k, h) ==
    /\ answer = NoAnswer
    /\ IF LoggedIn(k)
       THEN /\ Cardinality(flight) < MaxFlight
            /\ flight' = flight \cup {InFlight(k, h[1], h[2], "lock")}
            /\ UNCHANGED answer
       ELSE /\ Respond(k, h[1], "not logged in")
            /\ UNCHANGED flight
    /\ UNCHANGED <<now, pin, tok, emails, last_seen, sessions>>

\* *session.userID with userID set to nil since the middleware read it: the
\* handler panics, the deferred Unlock runs
HandlerPanic(k, h) ==
    /\ h[1] # "addemail"
    /\ Holds(k, h[1], h[2])
    /\ Session(k).userID = 0
    /\ flight' = flight \ {InFlight(k, h[1], h[2], "lock")}
    /\ Respond(k, h[1], "panic")
    /\ UNCHANGED <<now, pin, tok, emails, last_seen, sessions>>

\* GET /user: UserInformation selects the users row WHERE id = $1
handleUserInfo(k) ==
    /\ Holds(k, "userinfo", "")
    /\ Session(k).userID # 0
    /\ flight' = flight \ {InFlight(k, "userinfo", "", "lock")}
    /\ Respond(k, "userinfo", IF ~registered THEN "Internal"
                  ELSE IF coredata THEN "userinfo" ELSE "userinfo delete_in_progress")
    /\ UNCHANGED <<now, pin, tok, emails, last_seen, sessions>>

\* POST /user/delete: RemoveUser, then logoutUser and 204
handleDeleteUser(k) ==
    /\ Holds(k, "deleteuser", "")
    /\ Session(k).userID # 0
    /\ flight' = flight \ {InFlight(k, "deleteuser", "", "lock")}
    /\ IF RemoveUserWhere
       THEN /\ coredata' = FALSE
            /\ delete_on' = now + DeleteDelay
            /\ sessions' = SetSession(k, 0, Session(k).pendingError)
            /\ Respond(k, "deleteuser", "204")
       ELSE /\ Respond(k, "deleteuser", "Internal")
            /\ UNCHANGED <<coredata, delete_on, sessions>>
    /\ UNCHANGED <<now, pinrest, tok, emails, last_seen>>

\* POST /logout: logoutUser sets userID to nil without taking the mutex
handleLogout(k) ==
    /\ answer = NoAnswer
    /\ HasSession(k)
    /\ sessions' = SetSession(k, 0, Session(k).pendingError)
    /\ Respond(k, "logout", "204")
    /\ UNCHANGED <<now, pin, tok, emails, last_seen, flight>>

\* POST /email/add: an IRMA session is started whose result will come to
\* processAddEmailIrmaSessionResult
handleAddEmail(k) ==
    /\ Holds(k, "addemail", "")
    /\ flight' = (flight \ {InFlight(k, "addemail", "", "lock")})
                     \cup {InFlight(k, "addcb", "", "fire")}
    /\ Respond(k, "addemail", "qr")
    /\ UNCHANGED <<now, pin, tok, emails, last_seen, sessions>>

\* the callback of the e-mail disclosure, holding the session's mutex; a
\* valid result runs the UPDATE of AddEmail
processAddEmailIrmaSessionResult(k, result, e) ==
    /\ InFlight(k, "addcb", "", "fire") \in flight
    /\ ~SessLocked(k)
    /\ CASE Session(k).userID = 0 \/ result = "notdone" ->
               /\ flight' = flight \ {InFlight(k, "addcb", "", "fire")}
               /\ UNCHANGED <<sessions, emails>>
         [] Session(k).userID # 0 /\ result = "invalid" ->
               /\ flight' = flight \ {InFlight(k, "addcb", "", "fire")}
               /\ sessions' = SetSession(k, Session(k).userID, "InvalidProofs")
               /\ UNCHANGED emails
         [] Session(k).userID # 0 /\ result = "valid" ->
               /\ emails' = EmailsRestored(Account, e)
               /\ flight' = (flight \ {InFlight(k, "addcb", "", "fire")})
                                \cup (IF AddEmailRestored(Account, e) THEN {}
                                      ELSE {InFlight(k, "addcb", e, "insert")})
               /\ UNCHANGED sessions
    /\ UNCHANGED <<now, pin, tok, last_seen, answer>>

\* the INSERT of AddEmail, in the callback
processAddEmailInsert(k, e) ==
    /\ InFlight(k, "addcb", e, "insert") \in flight
    /\ Len(emails[Account][e]) < MaxRows
    /\ flight' = flight \ {InFlight(k, "addcb", e, "insert")}
    /\ emails' = EmailsInserted(Account, e)
    /\ UNCHANGED <<now, pin, tok, last_seen, sessions, answer>>

\* POST /email/remove: processRemoveEmail reads the user's active addresses
\* (UserInformation); an address that is not among them is ErrInvalidEmail
processRemoveEmail(k, e) ==
    /\ Holds(k, "removeemail", e)
    /\ Session(k).userID # 0
    /\ IF \E i \in 1..Len(emails[Account][e]) : ActiveEmail(emails[Account][e][i])
       THEN /\ flight' = (flight \ {InFlight(k, "removeemail", e, "lock")})
                             \cup {InFlight(k, "removeemail", e, "remove")}
            /\ UNCHANGED answer
       ELSE /\ flight' = flight \ {InFlight(k, "removeemail", e, "lock")}
            /\ Respond(k, "removeemail", "InvalidRequest")
    /\ UNCHANGED <<now, pin, tok, emails, last_seen, sessions>>

\* RemoveEmail: an affected-row count other than 1 is an error; 204 otherwise
RemoveEmail(k, e) ==
    /\ InFlight(k, "removeemail", e, "remove") \in flight
    /\ answer = NoAnswer
    /\ flight' = flight \ {InFlight(k, "removeemail", e, "remove")}
    /\ emails' = EmailsRemoved(Account, e, now + DeleteDelay)
    /\ Respond(k, "removeemail", IF Cardinality({i \in 1..Len(emails[Account][e]) :
                                     emails[Account][e][i] = NULL}) = 1
                  THEN "204" ELSE "Internal")
    /\ UNCHANGED <<now, pin, tok, last_seen, sessions>>

\* the account exists, with the address e1 or with none; nobody has a session
InitSess ==
    /\ now = Epoch
    /\ registered = TRUE
    /\ coredata = TRUE
    /\ pin_counter = 0
    /\ pin_block_date = 0
    /\ delete_on = NULL
    /\ pc = [p \in Procs |-> "idle"]
    /\ targ = [p \in Procs |-> 0]
    /\ row = [p \in Procs |-> NoRow]
    /\ ret = [p \in Procs |-> NoRet]
    /\ ConsoleIdle
    /\ vtokens = [t \in VTokens |-> [live |-> FALSE, user_id |-> 1, email |-> "e2", expiry |-> 0]]
    /\ ltokens = [t \in LTokens |-> [live |-> FALSE, email |-> "e1", expiry |-> 0]]
    /\ \E d \in {<<>>, <<NULL>>} :
          emails = [u \in Users |-> [e \in Emails |->
                       IF u = Account /\ e = "e1" THEN d ELSE <<>>]]

\* the requests and callbacks on session k
SessionStep(k) ==
    \/ handleIrmaLogin(k)
    \/ \E result \in {"notdone", "invalid", "valid"}, username \in {0, Account} :
          processLoginIrmaSessionResult(k, result, username)
    \/ handleCheckSessionStart(k)
    \/ handleCheckSession(k)
    \/ \E h \in Guarded : sessionMiddleware(k, h)
    \/ \E h \in Guarded : HandlerPanic(k, h)
    \/ handleUserInfo(k)
    \/ handleDeleteUser(k)
    \/ handleLogout(k)
    \/ handleAddEmail(k)
    \/ \E result \in {"notdone", "invalid", "valid"}, e \in Disclosed :
          processAddEmailIrmaSessionResult(k, result, e)
    \/ \E e \in Disclosed : processAddEmailInsert(k, e)
    \/ \E e \in Disclosed : processRemoveEmail(k, e)
    \/ \E e \in Disclosed : RemoveEmail(k, e)

NextSess ==
    \/ Tick(MaxSkew)
    \/ Deliver
    \/ \E k \in Sess : SessionStep(k)

SpecSess == InitSess /\ [][NextSess]_vars

\* one session: its handlers and callbacks hold its mutex one at a time
NextOne ==
    \/ Tick(MaxSkew)
    \/ Deliver
    \/ SessionStep(1)

SpecOne == InitSess /\ [][NextOne]_vars

(***************************************************************************)
(* Issue of the tokens: POST /login/email inserts a login token and mails  *)
(* it; the keyshare server's AddEmailVerification inserts a verification   *)
(* token.  conf.EmailServer is set.  A token row carries here the time it  *)
(* was issued at; a row inserted by a transaction that has not committed   *)
(* is not live.                                                            *)
(***************************************************************************)
\* minutes a login token is valid (account console)
EMAIL_TOKEN_VALIDITY == 60

\* hours a verification token is valid (keyshare server)
KEYSHARE_EMAIL_TOKEN_VALIDITY == 24

\* time.Now().Add(EMAIL_TOKEN_VALIDITY*time.Minute).Unix() - time.Now().Unix()
LoginValidity == EMAIL_TOKEN_VALIDITY * 60

\* time.Now().Add(EMAIL_TOKEN_VALIDITY*time.Hour).Unix() - time.Now().Unix()
VerifyValidity == KEYSHARE_EMAIL_TOKEN_VALIDITY * 3600

\* the seconds of a run that are looked at after Epoch
MaxLate == 1

\* the times the console is observed at: around the issue of a token and
\* around the end of either validity
Instants ==
    {Epoch + b + d : b \in {0, LoginValidity, VerifyValidity}, d \in 0..MaxLate}

Elapse ==
    /\ \E t \in Instants : t > now /\ now' = t
    /\ UNCHANGED <<pin, console>>

\* mutant: the verification token is valid for 24 days
MutVerificationExpiryDays == now + KEYSHARE_EMAIL_TOKEN_VALIDITY * 86400

\* time.Now().Add(EMAIL_TOKEN_VALIDITY*time.Hour).Unix()
VerificationExpiry == now + VerifyValidity

\* keyshare server: INSERT INTO irma.email_verification_tokens (token, email,
\* user_id, expiry), outside any transaction
AddEmailVerification(t) ==
    /\ vtokens[t].expiry = 0
    /\ vtokens' = [vtokens EXCEPT ![t] =
                      [live |-> TRUE, user_id |-> 1, email |-> "e2",
                       expiry |-> VerificationExpiry, issued |-> now]]
    /\ UNCHANGED <<now, pin, flight, answer, ltokens, emails, last_seen, sessions, tx, txdel, txseen, req>>

\* POST /login/email for address e; t is the token sendLoginEmail will make
handleEmailLogin(r, e, t) ==
    /\ req[r].pc = "idle"
    /\ \A q \in Reqs : q < r => req[q].pc # "idle"
    /\ ltokens[t].expiry = 0
    /\ \A q \in Reqs : ~(req[q].kind = "email" /\ req[q].token = t)
    /\ req' = [req EXCEPT ![r] = [NoReq EXCEPT !.kind = "email", !.pc = "begin",
                                                !.token = t, !.email = e,
                                                !.hb = {q \in Reqs : req[q].pc = "end"}]]
    /\ UNCHANGED <<now, pin, flight, answer, vtokens, ltokens, emails, last_seen, sessions, tx, txdel, txseen>>

\* mutant: the address is looked up whatever its delete_on
MutEmailKnownAnyRow(e) == \E u \in Users : Len(emails[u][e]) > 0

\* SELECT 1 FROM irma.emails WHERE email = $1 AND (delete_on >= $2 OR
\* delete_on IS NULL) LIMIT 1
EmailKnown(e) ==
    \E u \in Users : \E i \in 1..Len(emails[u][e]) : ActiveEmail(emails[u][e][i])

\* AddEmailLoginToken: no row is ErrEmailNotFound, which the callback of
\* handleEmailLogin turns into ErrorUserNotRegistered
AddEmailLoginTokenSelect(r) ==
    /\ req[r].pc = "eselect"
    /\ IF EmailKnown(req[r].email)
       THEN req' = [req EXCEPT ![r].pc = "einsert"]
       ELSE req' = [req EXCEPT ![r].res = "ErrEmailNotFound",
                               ![r].err = "UserNotRegistered",
                               ![r].pc = "rollback"]
    /\ UNCHANGED <<now, pin, flight, answer, vtokens, ltokens, emails, last_seen, sessions, tx, txdel, txseen>>

\* time.Now().Add(EMAIL_TOKEN_VALIDITY*time.Minute).Unix()
LoginExpiry == now + LoginValidity

\* INSERT INTO irma.email_login_tokens (token, email, expiry), in the
\* transaction; a failed statement is ErrorInternal
AddEmailLoginTokenInsert(r) ==
    /\ req[r].pc = "einsert"
    /\ \/ /\ ltokens' = [ltokens EXCEPT ![req[r].token] =
                            [live |-> FALSE, email |-> req[r].email,
                             expiry |-> LoginExpiry, issued |-> now]]
          /\ req' = [req EXCEPT ![r].pc = "esend"]
          /\ UNCHANGED tx
       \/ /\ tx' = [tx EXCEPT ![r] = "aborted"]
          /\ req' = [req EXCEPT ![r].res = "error", ![r].err = "Internal",
                                ![r].pc = "rollback"]
          /\ UNCHANGED ltokens
    /\ UNCHANGED <<now, pin, flight, answer, vtokens, emails, last_seen, sessions, txdel, txseen>>

\* mutant: the error of SendEmail is dropped and the callback succeeds
MutSendLoginEmailErrorDropped(r) ==
    /\ req[r].pc = "esend"
    /\ \/ req' = [req EXCEPT ![r].res = "ok", ![r].resp = Written(r, "204"),
                             ![r].pc = "commit"]
       \/ req' = [req EXCEPT ![r].res = "error", ![r].resp = Written(r, "204"),
                             ![r].pc = "commit"]
    /\ UNCHANGED <<now, pin, flight, answer, vtokens, ltokens, emails, last_seen, sessions, tx, txdel, txseen>>

\* s.conf.SendEmail: the mail with the token is sent and the callback
\* writes http.StatusNoContent, or sending fails with ErrorInternal
sendLoginEmail(r) ==
    /\ req[r].pc = "esend"
    /\ \/ req' = [req EXCEPT ![r].res = "ok", ![r].resp = Written(r, "204"),
                             ![r].pc = "commit"]
       \/ req' = [req EXCEPT ![r].res = "error", ![r].err = "Internal",
                             ![r].pc = "rollback"]
    /\ UNCHANGED <<now, pin, flight, answer, vtokens, ltokens, emails, last_seen, sessions, tx, txdel, txseen>>

\* SELECT username, last_seen FROM irma.users INNER JOIN irma.emails ...
\* WHERE (emails.delete_on >= $2 OR emails.delete_on is NULL) AND
\* emails.email = (SELECT email FROM irma.email_login_tokens WHERE token = $1
\* AND expiry >= $2)
LoginTokenCandidates(t) ==
    IF ltokens[t].live /\ ltokens[t].expiry >= now
    THEN {u \in Users : \E i \in 1..Len(emails[u][ltokens[t].email]) :
                            ActiveEmail(emails[u][ltokens[t].email][i])}
    ELSE {}

\* POST /login/token/candidates: no candidate is "token invalid"
handleGetCandidates(t) ==
    /\ answer = NoAnswer
    /\ Respond(0, "candidates", IF LoginTokenCandidates(t) = {} THEN "InvalidRequest"
                                                              ELSE "candidates")
    /\ UNCHANGED <<now, pin, tok, emails, last_seen, sessions, flight>>

\* no token has been issued; user 1 has the address e1, possibly scheduled
\* for deletion
InitIssue ==
    /\ now = Epoch
    /\ registered = TRUE
    /\ coredata = TRUE
    /\ pin_counter = 0
    /\ pin_block_date = 0
    /\ delete_on = NULL
    /\ pc = [p \in Procs |-> "idle"]
    /\ targ = [p \in Procs |-> 0]
    /\ row = [p \in Procs |-> NoRow]
    /\ ret = [p \in Procs |-> NoRet]
    /\ ConsoleIdle
    /\ vtokens = [t \in VTokens |->
                    [live |-> FALSE, user_id |-> 1, email |-> "e2", expiry |-> 0, issued |-> 0]]
    /\ ltokens = [t \in LTokens |-> [live |-> FALSE, email |-> "e1", expiry |-> 0, issued |-> 0]]
    /\ \E d \in {<<>>, <<NULL>>, <<Epoch + 1>>} :
          emails = [u \in Users |-> [e \in Emails |->
                       IF u = 1 /\ e = "e1" THEN d ELSE <<>>]]

NextIssue ==
    \/ Elapse
    \/ Deliver
    \/ \E t \in VTokens : AddEmailVerification(t)
    \/ \E t \in LTokens : handleGetCandidates(t)
    \/ \E r \in Reqs :
          \/ \E e \in Emails, t \in LTokens : handleEmailLogin(r, e, t)
          \/ AddEmailLoginTokenSelect(r)
          \/ AddEmailLoginTokenInsert(r)
          \/ sendLoginEmail(r)
          \/ \E t \in VTokens : handleVerifyEmail(r, t)
          \/ \E t \in LTokens, u \in Users : handleTokenLogin(r, t, u)
          \/ TxBegin(r)
          \/ VerifyEmailTokenSelect(r)
          \/ AddEmailUpdate(r)
          \/ AddEmailInsert(r)
          \/ VerifyEmailTokenDelete(r)
          \/ handleVerifyEmailRespond(r)
          \/ TryUserLoginTokenSelect(r)
          \/ TryUserLoginTokenDelete(r)
          \/ processTokenLoginCreate(r)
          \/ processTokenLoginSetSeen(r)
          \/ TxCommit(r)
          \/ TxRollback(r)
          \/ handleVerifyEmailSetSeen(r)

SpecIssue == InitIssue /\ [][NextIssue]_vars

(***************************************************************************)
(* Session store: create, get and flush with the sessions' expiry, and the *)
(* handlers behind sessionMiddleware that write session.expiry themselves. *)
(* A session carries here, besides its fields, the time of its last        *)
(* create or successful get (got) and of the last write of its expiry      *)
(* (touched).                                                              *)
(***************************************************************************)
\* conf.SessionLifetime, in seconds
SessionLifetime == 2

\* the time the store is observed for
MaxAge == 6

\* create(): a fresh token, expiry = now + lifetime; userID is nil, or set at
\* once by the handler that created the session
StoredSession(k, id) ==
    [token |-> k, userID |-> id, pendingError |-> "nil",
     expiry |-> now + SessionLifetime, got |-> now, touched |-> now]

\* mutant: get returns whatever the map holds
MutGetIgnoresExpiry(k) == HasSession(k)

\* get(token) returns the session only if it is unexpired
GetHit(k) == HasSession(k) /\ now <= Session(k).expiry

\* the store gets a new session under the fresh token k
Created(k, id) ==
    /\ ~HasSession(k)
    /\ \A f \in flight : f.sess # k
    /\ \A j \in Sess : j < k => HasSession(j)
    /\ answer = NoAnswer
    /\ sessions' = sessions \cup {StoredSession(k, id)}
    /\ Respond(k, "create", "session")
    /\ UNCHANGED <<now, pin, tok, emails, last_seen>>

create(k, id) == Created(k, id) /\ UNCHANGED flight

\* POST /login/irma: the session is created with userID nil and the login
\* disclosure started
handleIrmaLoginCreate(k) ==
    /\ Created(k, 0)
    /\ Cardinality(flight) < MaxFlight
    /\ flight' = flight \cup {InFlight(k, "login", "", "fire")}

\* how a login disclosure can end: not completed, an invalid proof, a valid
\* proof of the account's username ("valid") or of a username nobody has
\* ("unknown"), and a valid proof with the database failing in UserID
Outcomes == {"notdone", "invalid", "valid", "unknown", "dberror"}

\* the disclosure of session k ends; the IRMA server will call back with it
Disclose(k, outcome) ==
    /\ InFlight(k, "login", "", "fire") \in flight
    /\ flight' = (flight \ {InFlight(k, "login", "", "fire")})
                     \cup {InFlight(k, "login", outcome, "fire")}
    /\ UNCHANGED <<now, pin, tok, emails, last_seen, sessions, answer>>

\* mutant: an unknown username is reported as an invalid proof
MutNotRegisteredAsInvalid == "InvalidProofs"

\* session.pendingError = &server.ErrorUserNotRegistered
NotRegistered == "UserNotRegistered"

\* the session s after processLoginIrmaSessionResult has handled the outcome
LoginResult(s, outcome) ==
    CASE outcome = "notdone" -> s
      [] outcome = "invalid" -> [s EXCEPT !.pendingError = "InvalidProofs"]
      [] outcome = "dberror" -> [s EXCEPT !.pendingError = "Internal"]
      [] outcome \in {"valid", "unknown"} ->
            IF UserIDWhere(IF outcome = "valid" THEN Account ELSE 0)
            THEN [s EXCEPT !.userID = Account]
            ELSE [s EXCEPT !.pendingError = NotRegistered]

\* processLoginIrmaSessionResult with the store's get: a session that is
\* gone or expired is dropped
processLoginIrmaSessionResultGet(k, outcome) ==
    /\ outcome # ""
    /\ InFlight(k, "login", outcome, "fire") \in flight
    /\ flight' = flight \ {InFlight(k, "login", outcome, "fire")}
    /\ IF GetHit(k)
       THEN /\ sessions' = (sessions \ {Session(k)}) \cup
                    {LoginResult([Session(k) EXCEPT !.expiry = now + SessionLifetime,
                                                    !.got = now, !.touched = now],
                                 outcome)}
            /\ last_seen' = IF outcome = "valid" /\ UserIDWhere(Account)
                            THEN [last_seen EXCEPT ![Account] = now]
                            ELSE last_seen
       ELSE UNCHANGED <<sessions, last_seen>>
    /\ UNCHANGED <<now, pin, tok, emails, answer>>

\* mutant: the handler adds the lifetime twice
MutRefreshedTwice == now + 2 * SessionLifetime

\* time.Now().Add(time.Duration(s.conf.SessionLifetime) * time.Second)
RefreshedExpiry == now + SessionLifetime

\* get(token) for a request of kind h: on a hit the expiry moves to
\* now + lifetime; a request behind sessionMiddleware of a logged-in session
\* goes on to its handler
get(k, h) ==
    /\ answer = NoAnswer
    /\ IF GetHit(k)
       THEN /\ sessions' = (sessions \ {Session(k)}) \cup
                    {[Session(k) EXCEPT !.expiry = now + SessionLifetime,
                                        !.got = now, !.touched = now]}
            /\ IF h \in {"userinfo", "deleteuser"} /\ Session(k).userID # 0
               THEN /\ Cardinality(flight) < MaxFlight
                    /\ flight' = flight \cup {InFlight(k, h, "", "lock")}
                    /\ UNCHANGED answer
               ELSE /\ Respond(k, "get", "session")
                    /\ UNCHANGED flight
       ELSE /\ Respond(k, "get", "nil")
            /\ UNCHANGED <<sessions, flight>>
    /\ UNCHANGED <<now, pin, tok, emails, last_seen>>

\* the handler, holding the session it got: session.expiry = now + lifetime
\* (the write is lost when flush has dropped the session from the map)
handleUserInfoExpiry(k) ==
    /\ Holds(k, "userinfo", "")
    /\ flight' = flight \ {InFlight(k, "userinfo", "", "lock")}
    /\ sessions' = {IF s.token = k
                      THEN [s EXCEPT !.expiry = RefreshedExpiry, !.touched = now]
                      ELSE s : s \in sessions}
    /\ Respond(k, "userinfo", "userinfo")
    /\ UNCHANGED <<now, pin, tok, emails, last_seen>>

\* flush() removes the expired sessions
flush ==
    /\ \E s \in sessions : now > s.expiry
    /\ sessions' = {s \in sessions : now <= s.expiry}
    /\ UNCHANGED <<now, pin, tok, emails, last_seen, flight, answer>>

StoreTick ==
    /\ now < Epoch + MaxAge
    /\ now' = now + 1
    /\ UNCHANGED <<pin, console>>

InitStore ==
    /\ InitSess
    /\ emails[Account]["e1"] = <<NULL>>

NextStore ==
    \/ StoreTick
    \/ Deliver
    \/ flush
    \/ \E k \in Sess :
          \/ \E id \in {0, Account} : create(k, id)
          \/ \E h \in {"check", "userinfo"} : get(k, h)
          \/ handleUserInfoExpiry(k)

SpecStore == InitStore /\ [][NextStore]_vars

\* IRMA logins on the store: sessions are created by POST /login/irma, expire
\* and are flushed while their disclosure is under way
NextLogin ==
    \/ StoreTick
    \/ Deliver
    \/ flush
    \/ \E k \in Sess :
          \/ handleIrmaLoginCreate(k)
          \/ \E outcome \in Outcomes : Disclose(k, outcome)
          \/ \E outcome \in Outcomes : processLoginIrmaSessionResultGet(k, outcome)
          \/ get(k, "check")

SpecLogin == InitStore /\ [][NextLogin]_vars

(***************************************************************************)
(* POST /user/delete on the store, with a mail server configured.  The     *)
(* handler holds the session object the middleware got and the session's   *)
(* mutex from sendDeleteEmails to its response; logoutUser reads the       *)
(* session from the store once more.  flush is left out: a get of an       *)
(* expired session fails whether or not flush has dropped it from the map. *)
(***************************************************************************)
\* sendDeleteEmails: UserInformation, then conf.SendEmail, which succeeds
\* (sent) or fails; a failure is answered as an internal error
sendDeleteEmails(k, sent) ==
    /\ Holds(k, "deleteuser", "")
    /\ Session(k).userID # 0
    /\ IF registered /\ sent
       THEN /\ flight' = (flight \ {InFlight(k, "deleteuser", "", "lock")})
                             \cup {InFlight(k, "deleteuser", "", "remove")}
            /\ UNCHANGED answer
       ELSE /\ flight' = flight \ {InFlight(k, "deleteuser", "", "lock")}
            /\ Respond(k, "deleteuser", "Internal")
    /\ UNCHANGED <<now, pin, tok, emails, last_seen, sessions>>

\* logoutUser: session := s.sessionFromCookie(r); if session != nil then
\* session.userID = nil
logoutUserGet(k) ==
    IF GetHit(k)
    THEN (sessions \ {Session(k)}) \cup
             {[Session(k) EXCEPT !.userID = 0, !.expiry = now + SessionLifetime,
                                 !.got = now, !.touched = now]}
    ELSE sessions

\* RemoveUser, then logoutUser (which clears the cookie) and 204; an
\* affected-row count other than 1 is answered as an internal error
handleDeleteUserRemove(k) ==
    /\ InFlight(k, "deleteuser", "", "remove") \in flight
    /\ answer = NoAnswer
    /\ flight' = flight \ {InFlight(k, "deleteuser", "", "remove")}
    /\ IF RemoveUserWhere
       THEN /\ coredata' = FALSE
            /\ delete_on' = now + DeleteDelay
            /\ sessions' = logoutUserGet(k)
            /\ Respond(k, "deleteuser", "204 cookie cleared")
       ELSE /\ Respond(k, "deleteuser", "Internal")
            /\ UNCHANGED <<coredata, delete_on, sessions>>
    /\ UNCHANGED <<now, pinrest, tok, emails, last_seen>>

NextDelete ==
    \/ StoreTick
    \/ Deliver
    \/ \E k \in Sess :
          \/ create(k, Account)
          \/ get(k, "deleteuser")
          \/ \E sent \in BOOLEAN : sendDeleteEmails(k, sent)
          \/ handleDeleteUserRemove(k)
          \/ HandlerPanic(k, <<"deleteuser", "">>)

SpecDelete == InitStore /\ [][NextDelete]_vars

(***************************************************************************)
(* Properties of the PIN controller.                                       *)
(***************************************************************************)
Max(a, b) == IF a >= b THEN a ELSE b

Abs(a) == IF a >= 0 THEN a ELSE 0 - a

\* the statement of client p is executed in this step
Leaves(p, at) == pc[p] = at /\ pc'[p] # at

\* client p holds the result of a ReservePincheck that returned no error
Reserved(p) == pc[p] = "done" /\ ret[p].op = "ReservePincheck" /\ ret[p].err = "nil"

Active == registered /\ coredata

\* seconds allowed between the waits of the specification and of the code
Tolerance == 2

\* C1: a ReservePincheck on an account that is not blocked at the clock value
\* the call read (pin_block_date <= now) and not soft-deleted adds exactly 1
\* to pin_counter, sets pin_block_date to (now-1-30) + 30*2^max(0, c-(3-2))
\* for the counter c before the increment, and returns (true,
\* max(0, 3-(c+1)), max(0, pin_block_date - now)), now being the clock at
\* the return.
C1_ReserveAllowed ==
    [][\A p \in Procs :
        /\ (Leaves(p, "update") /\ Active /\ pin_block_date <= targ[p])
              => /\ MAX_PIN_TRIES = 3
                 /\ BACKOFF_START = 30
                 /\ pin_counter' = pin_counter + 1
                 /\ pin_block_date' = (targ[p] - 1 - 30) + 30 * 2^Max(0, pin_counter - (3 - 2))
                 /\ pc'[p] = "scan"
                 /\ row'[p] = [c |-> pin_counter + 1, b |-> pin_block_date']
        /\ Leaves(p, "scan")
              => ret'[p] = [op |-> "ReservePincheck", allowed |-> TRUE,
                            tries |-> Max(0, 3 - row[p].c),
                            wait |-> Max(0, row[p].b - now),
                            err |-> "nil", at |-> now]
      ]_vars

\* an allowed call that found four earlier failures: the exponent is 3
C1_Witness ==
    \E p \in Procs :
        /\ Reserved(p) /\ ret[p].allowed
        /\ row[p].c = 5 /\ ret[p].tries = 0
        /\ ret[p].wait = 209 - (ret[p].at - targ[p])

\* C2: while the account is blocked (pin_block_date > now) a ReservePincheck
\* changes neither pin_counter nor pin_block_date and returns (false, 0,
\* pin_block_date - now).
C2_BlockedRefused ==
    [][\A p \in Procs :
        /\ (Leaves(p, "update") /\ Active /\ pin_block_date > now)
              => /\ pc'[p] = "select"
                 /\ UNCHANGED <<pin_counter, pin_block_date>>
        /\ (Leaves(p, "select") /\ Active /\ pin_block_date > now)
              => /\ pc'[p] = "wait"
                 /\ row'[p].b = pin_block_date
                 /\ UNCHANGED <<pin_counter, pin_block_date>>
        /\ (Leaves(p, "wait") /\ Active /\ pin_block_date > now)
              => /\ ret'[p] = [op |-> "ReservePincheck", allowed |-> FALSE, tries |-> 0,
                               wait |-> pin_block_date - now, err |-> "nil", at |-> now]
                 /\ UNCHANGED <<pin_counter, pin_block_date>>
      ]_vars

\* the third failure was at Epoch; a call five seconds later is refused
C2_Witness ==
    \E p \in Procs :
        /\ Reserved(p) /\ ~ret[p].allowed
        /\ pin_counter = MAX_PIN_TRIES /\ pin_block_date = Epoch + 29
        /\ targ[p] = Epoch + 5 /\ ret[p].wait = 24

\* C3: PIN grace.  A ReservePincheck that finds fewer than MAX_PIN_TRIES - 1
\* earlier failures (it is the k-th in a row, k < MAX_PIN_TRIES) is allowed,
\* returns wait 0, and leaves the account not blocked.
C3_PinGrace ==
    [][\A p \in Procs :
        /\ (Leaves(p, "update") /\ Active /\ pin_counter < MAX_PIN_TRIES - 1)
              => /\ pc'[p] = "scan"
                 /\ row'[p].c = pin_counter + 1
                 /\ pin_block_date' <= now
        /\ (Leaves(p, "scan") /\ row[p].c < MAX_PIN_TRIES)
              => /\ ret'[p].allowed
                 /\ ret'[p].wait = 0
                 /\ ret'[p].err = "nil"
                 /\ pin_block_date <= now
      ]_vars

\* the second call in a row has returned
C3_Witness ==
    \E p \in Procs :
        /\ Reserved(p) /\ ret[p].allowed
        /\ row[p].c = MAX_PIN_TRIES - 1 /\ pin_counter = MAX_PIN_TRIES - 1
        /\ ret[p].tries = 1 /\ ret[p].wait = 0

\* C4 as claimed: the wait returned by the k-th allowed call in a row,
\* k >= MAX_PIN_TRIES, is about 30 s at k = MAX_PIN_TRIES and doubles with
\* each further failure (30 * 2^(k-3), within the timing tolerance).
C4_WaitDoubles ==
    \A p \in Procs :
        (Reserved(p) /\ ret[p].allowed /\ row[p].c >= MAX_PIN_TRIES /\ ret[p].at = targ[p])
            => Abs(ret[p].wait - 30 * 2^(row[p].c - 3)) <= Tolerance

\* C4 as amended: the block set by the k-th allowed call in a row,
\* k >= MAX_PIN_TRIES, lasts 30 * 2^(k-2) - 31 seconds from the clock value
\* the call read (29, 89, 209, ...: non-decreasing in k, about 30 s at
\* k = MAX_PIN_TRIES, and the duration plus 31 s doubles), and the returned
\* wait is what is left of it at the return.
C4_BackoffGrowth ==
    \A p \in Procs :
        (Reserved(p) /\ ret[p].allowed /\ row[p].c >= MAX_PIN_TRIES)
            => /\ row[p].b - targ[p] = 30 * 2^(row[p].c - 2) - 31
               /\ row[p].b - targ[p] >= 29
               /\ ret[p].wait = Max(0, row[p].b - ret[p].at)
               /\ ret[p].wait >= 29 - MaxLag

\* the fourth failure in a row, returned in the second of the call: 89 s
C4_Witness ==
    \E p \in Procs :
        /\ Reserved(p) /\ ret[p].allowed
        /\ row[p].c = MAX_PIN_TRIES + 1
        /\ ret[p].at = targ[p] /\ ret[p].wait = 89

\* every client has called ReservePincheck and holds its result
AllReturned == \A p \in Procs : pc[p] = "done"

Granted == {p \in Procs : pc[p] = "scan" \/ (pc[p] = "done" /\ ret[p].allowed)}

\* C5 as claimed: when N concurrent ReservePincheck calls that started from
\* pin_counter 0 have returned, pin_counter is N.
C5_AllConsumed == AllReturned => pin_counter = NProcs

\* C5 as amended: when N concurrent ReservePincheck calls that started from
\* pin_counter 0 have returned, pin_counter is the number of calls that
\* returned allowed = true, at least 1 and at most min(N, MAX_PIN_TRIES)
\* while the block of the MAX_PIN_TRIES-th has not passed; no increment is
\* lost, and a refused call consumes nothing.
C5_NoLostIncrement ==
    AllReturned =>
        /\ pin_counter = Cardinality({p \in Procs : ret[p].allowed})
        /\ pin_counter >= 1
        /\ pin_counter <= NProcs
        /\ pin_counter <= MAX_PIN_TRIES

\* more calls than free tries: one of them was refused
C5_Witness ==
    /\ AllReturned
    /\ pin_counter = MAX_PIN_TRIES
    /\ \E p \in Procs : ~ret[p].allowed /\ ret[p].wait > 0

\* C6: in every interleaving of concurrent ReservePincheck calls for one
\* account, pin_counter has grown by exactly the number of calls whose UPDATE
\* was allowed, and no two allowed calls observed the same counter: the
\* counters they were returned are exactly 1..pin_counter.
C6_Linearisable ==
    /\ pin_counter = Cardinality(Granted)
    /\ \A p, q \in Granted : p # q => row[p].c # row[q].c
    /\ \A p \in Granted : row[p].c \in 1..pin_counter
    /\ \A p \in Procs : (pc[p] = "done" /\ ret[p].allowed) => ret[p].tries = Max(0, 3 - row[p].c)

\* two allowed calls are in flight at once, a third one has returned
C6_Witness ==
    /\ Cardinality({p \in Procs : pc[p] = "scan"}) = 2
    /\ \E p \in Procs : pc[p] = "done" /\ ret[p].allowed
    /\ pin_counter = 3

\* C7: PIN reset.  ClearPincheck sets pin_counter = 0 and pin_block_date = 0
\* from any pin state of an account that is not deleted, and a
\* ReservePincheck that finds the account as ClearPincheck left it returns
\* (true, MAX_PIN_TRIES - 1, 0).
C7_PinReset ==
    [][\A p \in Procs :
        /\ (Leaves(p, "clear") /\ Active)
              => /\ pin_counter' = 0
                 /\ pin_block_date' = 0
                 /\ ret'[p].op = "ClearPincheck"
                 /\ ret'[p].err = "nil"
        /\ (Leaves(p, "update") /\ Active /\ pin_counter = 0 /\ pin_block_date = 0)
              => /\ pc'[p] = "scan"
                 /\ row'[p].c = 1
        /\ (Leaves(p, "scan") /\ row[p].c = 1)
              => /\ ret'[p].allowed
                 /\ ret'[p].tries = MAX_PIN_TRIES - 1
                 /\ ret'[p].wait = 0
                 /\ ret'[p].err = "nil"
      ]_vars

\* the clock is past Epoch + MaxIdle, so an earlier call was allowed and the
\* counter is back at 0 only through ClearPincheck: the call after it returned
C7_Witness ==
    \E p \in Procs :
        /\ Reserved(p) /\ ret[p].allowed
        /\ now > Epoch + MaxIdle + MaxLag
        /\ row[p].c = 1 /\ ret[p].tries = MAX_PIN_TRIES - 1 /\ ret[p].wait = 0

\* C8 as claimed: a ReservePincheck on a soft-deleted account returns
\* (false, 0, max(0, pin_block_date - now)) with no error.
C8_DeletedRefused ==
    \A p \in Procs :
        (pc[p] = "done" /\ ret[p].op = "ReservePincheck" /\ registered /\ ~coredata)
            => /\ ret[p].err = "nil"
               /\ ~ret[p].allowed
               /\ ret[p].tries = 0
               /\ ret[p].wait = Max(0, pin_block_date - ret[p].at)

\* C8 as amended: a ReservePincheck on a soft-deleted account fails with
\* ErrUserNotFound, returning (false, 0, 0) whatever the block date, and
\* changes neither pin_counter nor pin_block_date.
C8_DeletedNotFound ==
    [][\A p \in Procs :
        /\ (Leaves(p, "update") /\ registered /\ ~coredata)
              => /\ pc'[p] = "select"
                 /\ UNCHANGED <<pin_counter, pin_block_date>>
        /\ (Leaves(p, "select") /\ registered /\ ~coredata)
              => /\ ret'[p] = [op |-> "ReservePincheck", allowed |-> FALSE, tries |-> 0,
                               wait |-> 0, err |-> "ErrUserNotFound", at |-> now]
                 /\ pc'[p] = "done"
                 /\ UNCHANGED <<pin_counter, pin_block_date>>
      ]_vars

\* the account was deleted while blocked: the call returns no wait
C8_Witness ==
    \E p \in Procs :
        /\ pc[p] = "done" /\ ret[p].op = "ReservePincheck"
        /\ ret[p].err = "ErrUserNotFound" /\ ret[p].wait = 0
        /\ ~coredata /\ pin_block_date > now

(***************************************************************************)
(* Properties of token redemption.                                         *)
(***************************************************************************)
\* the requests whose redemption of token t returned success to the handler
Redeemed(t) == {r \in Reqs : req[r].token = t /\ req[r].res = "ok"}

\* no BeginTx, statement or Commit has failed so far
NoFailure == \A r \in Reqs : tx[r] \notin {"nobegin", "aborted", "failed"}

\* request q arrived after request r had ended
After(q, r) == r \in req[q].hb

\* request q has not gone beyond the SELECT of its redemption
NoEffect(q) ==
    /\ req[q].pc \in {"begin", "vselect", "lselect", "rollback", "seen", "end"}
    /\ req[q].res # "ok"
    /\ \A s \in sessions : s.token # q

\* C9: of the redemptions of one token (verification token or login token),
\* whatever their interleaving, at most one returns success, even when no
\* statement and no commit fails.
C9_AtMostOneRedemption ==
    NoFailure => \A t \in VTokens \cup LTokens : Cardinality(Redeemed(t)) <= 1

\* C10: once a /verify request whose VerifyEmailToken returned success has
\* ended, the token row no longer exists, and a /verify request with the same
\* token that arrives afterwards gets ErrTokenNotFound, binds no e-mail
\* address and mints no session.
C10_SingleUse ==
    \A r \in Reqs :
        (req[r].kind = "verify" /\ req[r].res = "ok" /\ req[r].pc = "end") =>
            /\ ~vtokens[req[r].token].live
            /\ \A q \in Reqs :
                   (req[q].kind = "verify" /\ req[q].token = req[r].token /\ After(q, r)) =>
                       /\ NoEffect(q)
                       /\ req[q].res \in {"pending", "ErrTokenNotFound"}

\* C11: once a /login/token request whose TryUserLoginToken returned success
\* has ended, the login token row is deleted, and a /login/token request with
\* that token (for any username) that arrives afterwards fails with
\* ErrUserNotFound and mints no session.
C11_LoginSingleUse ==
    \A r \in Reqs :
        (req[r].kind = "login" /\ req[r].res = "ok" /\ req[r].pc = "end") =>
            /\ ~ltokens[req[r].token].live
            /\ \A q \in Reqs :
                   (req[q].kind = "login" /\ req[q].token = req[r].token /\ After(q, r)) =>
                       /\ NoEffect(q)
                       /\ req[q].res \in {"pending", "ErrUserNotFound"}

\* some row of (u, e) has delete_on NULL
Bound(u, e) == \E i \in 1..Len(emails[u][e]) : emails[u][e][i] = NULL

\* C12: the e-mail binding of VerifyEmailToken is made inside the caller's
\* transaction: when every transaction that redeemed a verification token
\* has ended without committing (rolled back, or its commit failed), the
\* token's address is not bound to the token's user (in the initial state
\* it is absent or scheduled for deletion) and the token row is still there.
C12_BoundInTx ==
    \A t \in VTokens :
        (\A r \in Reqs : req[r].token = t => tx[r] \in {"nobegin", "failed", "rolledback"}) =>
            /\ ~Bound(vtokens[t].user_id, vtokens[t].email)
            /\ vtokens[t].live

\* C13: when the transaction of a /login/token or /verify request was rolled
\* back or failed to commit, the session store holds no session created by
\* that request that is logged in (user_id not nil).
C13_SessionOnlyIfCommitted ==
    \A r \in Reqs :
        tx[r] \in {"failed", "rolledback"} =>
            \A s \in sessions : s.token = r => s.userID = 0

(***************************************************************************)
(* Properties of the account store.                                        *)
(***************************************************************************)
\* C16: RemoveUser(id, delay) on an active user sets coredata to NULL and
\* delete_on to the clock value of the call plus delay and succeeds; on a
\* user that is already soft-deleted it fails with ErrUserNotFound and
\* leaves the row, delete_on included, as it was.
C16_RemoveUser ==
    [][Leaves(1, "remove") =>
          IF coredata
          THEN /\ ~coredata'
               /\ delete_on' = targ[1] + DeleteDelay
               /\ ret'[1].err = "nil"
          ELSE /\ UNCHANGED <<registered, coredata, delete_on, pin_counter, pin_block_date>>
               /\ ret'[1].err = "ErrUserNotFound"]_vars

\* a second RemoveUser, called later than the first, has failed and the
\* scheduled delete_on is still that of the first
C16_Witness ==
    /\ ret[1].op = "RemoveUser"
    /\ ret[1].err = "ErrUserNotFound"
    /\ delete_on # NULL
    /\ delete_on < ret[1].at + DeleteDelay

(***************************************************************************)
(* Properties of the account console's sessions.                           *)
(***************************************************************************)
\* the pending error of session k
PendingError(k) == Session(k).pendingError

\* this step writes the response of operation op on session k
Responds(k, op) ==
    /\ answer' # answer
    /\ answer'.sess = k
    /\ answer'.op = op

\* this step ends a disclosure callback of session k
CallbackEnds(k) ==
    \E f \in flight \ flight' : f.sess = k /\ f.op \in {"login", "addcb"}

\* C14: a lookup by username ignores soft-deleted rows: while the account is
\* soft-deleted no step turns a session that is not logged in into a session
\* logged in, so no IRMA-login callback sets user_id for its username.
C14_SoftDeletedNotFound ==
    [][~coredata =>
         \A s \in sessions' : s.userID # 0 => LoggedIn(s.token)]_vars

\* C15: soft-delete opacity: once the account is soft-deleted no console
\* operation reads it (GET /user answers no user information) or modifies it
\* (its e-mail rows stay as they are).
C15_Opaque ==
    [][~coredata =>
         /\ emails' = emails
         /\ \A k \in Sess :
               Responds(k, "userinfo") =>
                   answer'.body \notin {"userinfo", "userinfo delete_in_progress"}]_vars

\* this step ends a call of AddEmail(Account, e): its UPDATE restored the row
\* and changed it, or its INSERT ran
AddEmailEnds(e) ==
    \/ \E f \in flight \ flight' : f.op = "addcb" /\ f.at = "insert" /\ f.arg = e
    \/ /\ \E f \in flight \ flight' : f.op = "addcb" /\ f.at = "fire"
       /\ \A f \in flight' \ flight : ~(f.op = "addcb" /\ f.at = "insert")
       /\ emails'[Account][e] # emails[Account][e]

\* C17: e-mail idempotence when the calls follow one another: a call of
\* AddEmail(u, e) leaves exactly one row for (u, e), with delete_on NULL; when
\* there was a row (added before, or scheduled for deletion by RemoveEmail) no
\* step adds a second row.
C17_EmailIdempotence ==
    [][\A e \in Emails :
         /\ AddEmailEnds(e) => emails'[Account][e] = <<NULL>>
         /\ Len(emails[Account][e]) = 1 => Len(emails'[Account][e]) = 1]_vars

\* RemoveEmail has answered 204 for e1 and, before the client took the
\* answer, AddEmail has restored the row
C17_Witness ==
    /\ answer.op = "removeemail"
    /\ answer.body = "204"
    /\ emails[Account]["e1"] = <<NULL>>

\* C18: under any interleaving of concurrent additions the emails table holds
\* at most one row per (user_id, email) pair.
C18_NoDuplicateRow ==
    \A u \in Users : \A e \in Emails : Len(emails[u][e]) <= 1

\* C19: a pending error takes precedence over "expired": a /checksession on a
\* session whose pending_error is set answers that error and clears it.
C19_ErrorBeforeExpired ==
    [][\A k \in Sess :
         (HasSession(k) /\ PendingError(k) # "nil" /\ Responds(k, "check")) =>
             /\ answer'.body = PendingError(k)
             /\ \A s \in sessions' : s.token = k => s.pendingError = "nil"]_vars

\* C20: a stored pending error changes only when a /checksession returns it
\* or a disclosure callback overwrites it; a /checksession that answers an
\* error answers the stored one and leaves the slot empty, so that it is
\* returned at most once; with an empty slot the answer is "ok" or "expired".
C20_PendingErrorKept ==
    [][\A k \in Sess : HasSession(k) =>
         /\ (Responds(k, "check") /\ answer'.body \notin {"ok", "expired"}) =>
                /\ PendingError(k) # "nil"
                /\ answer'.body = PendingError(k)
                /\ \A s \in sessions' : s.token = k => s.pendingError = "nil"
         /\ (PendingError(k) # "nil" /\ Responds(k, "check")
                /\ answer'.body \in {"ok", "expired"}) =>
                \A s \in sessions' : s.token = k => s.pendingError = PendingError(k)
         /\ (PendingError(k) # "nil"
                /\ \E s \in sessions' : s.token = k /\ s.pendingError # PendingError(k)) =>
                \/ Responds(k, "check") /\ answer'.body = PendingError(k)
                \/ CallbackEnds(k) /\ \A s \in sessions' : s.token = k => s.pendingError # "nil"]_vars

\* a /checksession has answered the stored error of a logged-in session and
\* the slot is empty
C20_Witness ==
    /\ answer.op = "check"
    /\ answer.body = "InvalidProofs"
    /\ LoggedIn(answer.sess)
    /\ PendingError(answer.sess) = "nil"

\* C21: a session's fields are mutated only by the task that holds the
\* session's mutex: while a handler or callback holds the mutex of session k
\* between two statements, no step of another task changes the fields of k.
C21_MutationUnderMutex ==
    [][\A k \in Sess :
         (HasSession(k) /\ SessLocked(k)) =>
             \A s \in sessions' : s.token = k => s = Session(k)]_vars

\* C22: logout invalidates the session token: once /logout or /user/delete
\* has answered 204 for a session, the session is not authenticated, also
\* when a disclosure callback of that session completes afterwards.
C22_LogoutInvalidates ==
    (answer.op \in {"logout", "deleteuser"} /\ answer.body = "204") =>
        ~LoggedIn(answer.sess)

(***************************************************************************)
(* Properties of the session store.                                        *)
(***************************************************************************)
\* this step is a get(k) that returns the session
GetReturns(k) ==
    \/ Responds(k, "get") /\ answer'.body = "session"
    \/ InFlight(k, "userinfo", "", "lock") \in flight' \ flight

\* get returns the session only while its expiry has not passed, and moves
\* the expiry to now + lifetime
GetExtends(k) ==
    GetReturns(k) =>
        /\ HasSession(k)
        /\ now <= Session(k).expiry
        /\ \A s \in sessions' : s.token = k => s.expiry = now + SessionLifetime

\* C23: get(token) returns no session once the expiry has passed, flushed or
\* not; a successful get moves the expiry to now + lifetime; so a session is
\* returned at time t only if a create or a successful get of it happened
\* within the lifetime before t.
C23_SessionExpiry ==
    [][\A k \in Sess :
         /\ GetExtends(k)
         /\ GetReturns(k) => now - Session(k).got <= SessionLifetime]_vars

\* C23 as amended: the expiry is also moved by the handlers behind
\* sessionMiddleware, so a session is returned at time t only if a create, a
\* successful get or a handler's write of its expiry happened within the
\* lifetime before t.
C23_SessionExpiryAmended ==
    [][\A k \in Sess :
         /\ GetExtends(k)
         /\ GetReturns(k) => now - Session(k).touched <= SessionLifetime]_vars

\* a get has returned a session that has outlived the expiry it was created
\* with
C23_Witness ==
    /\ answer.op = "get"
    /\ answer.body = "session"
    /\ now > Epoch + SessionLifetime
    /\ \E s \in sessions : s.token = answer.sess /\ s.got = now

(***************************************************************************)
(* Properties of the transaction adapter.                                  *)
(***************************************************************************)
\* the transaction has ended, or was never begun
TxEnded(r) == tx[r] \in {"nobegin", "committed", "failed", "rolledback"}

\* Tx has returned to the handler of r
TxReturned(r) == req[r].pc \in {"seen", "end"}

\* C24: Tx never leaves a transaction open: a transaction that was begun is
\* ended once, by a rollback exactly when the callback returned an error and
\* by a commit attempt otherwise, before Tx returns; when BeginTx fails the
\* callback is not invoked.
C24_TxNeverLeftOpen ==
    [][\A r \in Reqs :
         /\ TxEnded(r) => tx'[r] = tx[r]
         /\ (tx'[r] = "rolledback" /\ tx[r] # "rolledback") =>
                tx[r] \in {"open", "aborted"} /\ req[r].err # "none"
         /\ (tx'[r] \in {"committed", "failed"} /\ tx'[r] # tx[r]) =>
                tx[r] \in {"open", "aborted"} /\ req[r].err = "none"
         /\ TxReturned(r)' => TxEnded(r)'
         /\ tx'[r] = "nobegin" =>
                TxReturned(r)' /\ req'[r].res = "pending" /\ req'[r].err = "none"]_vars

\* one request's transaction was rolled back and another's was committed, and
\* both requests have ended
C24_Witness ==
    \E r \in Reqs : \E q \in Reqs :
        /\ tx[r] = "rolledback" /\ req[r].pc = "end"
        /\ tx[q] = "committed" /\ req[q].pc = "end"

\* C25: when the commit of a request's transaction fails the client receives
\* an internal error; a success status is delivered only for a committed
\* transaction.
C25_CommitFailureReported ==
    \A r \in Reqs :
        req[r].pc = "end" =>
            /\ tx[r] = "failed" => req[r].resp = "Internal"
            /\ req[r].resp = "204" => tx[r] = "committed"

(***************************************************************************)
(* Properties of the login tokens.                                         *)
(***************************************************************************)
\* the SELECT of TryUserLoginToken for request r finds its row in this step
LoginAccepted(r) == req[r].pc = "lselect" /\ req'[r].pc = "ldelete"

\* C27: TryUserLoginToken goes on to the delete only if the token is
\* unexpired and the named user has an active binding to the token's e-mail;
\* when it fails with UserNotFound nothing is written, the request deletes
\* no token row afterwards, and the token stays redeemable.
C27_WrongUserKeepsToken ==
    [][\A r \in Reqs :
         /\ LoginAccepted(r) =>
                LET t == req[r].token
                    rows == emails[req[r].username][ltokens[t].email]
                IN  /\ ltokens[t].live
                    /\ ltokens[t].expiry >= now
                    /\ \E i \in 1..Len(rows) : rows[i] = NULL \/ rows[i] >= now
         /\ (req[r].pc = "lselect" /\ ~LoginAccepted(r) /\ req'[r] # req[r]) =>
                /\ req'[r].res = "ErrUserNotFound"
                /\ UNCHANGED <<ltokens, txdel, emails, sessions>>
         /\ req[r].res = "ErrUserNotFound" =>
                /\ txdel'[r] = {}
                /\ req'[r].res = "ErrUserNotFound"
                /\ \A s \in sessions' : s.token # r]_vars

\* a login with the wrong username has failed with UserNotFound and, after
\* it, a login with the same token has succeeded
C27_Witness ==
    \E r \in Reqs : \E q \in Reqs :
        /\ req[r].kind = "login" /\ req[r].res = "ErrUserNotFound" /\ req[r].pc = "end"
        /\ req[q].kind = "login" /\ req[q].res = "ok" /\ req[q].pc = "end"
        /\ req[q].token = req[r].token
        /\ r \in req[q].hb
        /\ tx[q] = "committed"

(***************************************************************************)
(* Properties of the issue and the validity of tokens.                     *)
(***************************************************************************)
\* request r takes a step
Steps(r) == req'[r] # req[r]

\* C26: AddEmailLoginToken inserts a login token, with expiry now + 60 min,
\* only when the address is active (delete_on NULL or >= now) for some user;
\* otherwise it returns EmailNotFound, /login/email answers user-not-
\* registered, no token row is made and no mail is sent.
C26_LoginTokenOnlyForKnownEmail ==
    [][\A r \in Reqs :
         /\ (req[r].pc = "eselect" /\ Steps(r)) =>
                IF \E u \in Users : \E i \in 1..Len(emails[u][req[r].email]) :
                      \/ emails[u][req[r].email][i] = NULL
                      \/ emails[u][req[r].email][i] >= now
                THEN req'[r].pc = "einsert" /\ req'[r].res = "pending"
                ELSE req'[r].res = "ErrEmailNotFound" /\ req'[r].err = "UserNotRegistered"
         /\ (req[r].kind = "email" /\ ltokens'[req[r].token] # ltokens[req[r].token]) =>
                \/ /\ req[r].pc = "einsert"
                   /\ ltokens'[req[r].token].email = req[r].email
                   /\ ltokens'[req[r].token].expiry = now + 60 * 60
                \/ /\ req[r].pc = "commit" /\ req[r].res = "ok"
                   /\ ltokens'[req[r].token] = [ltokens[req[r].token] EXCEPT !.live = TRUE]
                \/ \E q \in Reqs \ {r} : req[q].pc = "commit" /\ Steps(q)
         /\ req[r].res = "ErrEmailNotFound" =>
                /\ req'[r].res = "ErrEmailNotFound"
                /\ ltokens' = ltokens
                /\ ltokens[req[r].token].expiry = 0
                /\ req'[r].pc = "end" => req'[r].resp = "UserNotRegistered"]_vars

\* /login/email for an address whose only row is past its delete_on has
\* ended with user-not-registered
C26_Witness ==
    \E r \in Reqs :
        /\ req[r].kind = "email" /\ req[r].pc = "end"
        /\ req[r].res = "ErrEmailNotFound" /\ req[r].resp = "UserNotRegistered"
        /\ \E u \in Users : Len(emails[u][req[r].email]) = 1
        /\ ltokens[req[r].token].expiry = 0

\* C28: a verification token is redeemed only while now <= issue time + 24 h
\* and a login token is used, by LoginTokenCandidates and TryUserLoginToken,
\* only while now <= issue time + 60 min; after that the redemption fails
\* with TokenNotFound or UserNotFound, and a failed redemption changes no
\* e-mail row and makes no session.
C28_NoRedemptionAfterValidity ==
    [][/\ \A r \in Reqs :
            /\ (req[r].pc = "vselect" /\ Steps(r)) =>
                   IF now <= vtokens[req[r].token].issued + 24 * 3600
                   THEN req'[r].pc = "addupdate" => vtokens[req[r].token].live
                   ELSE req'[r].res = "ErrTokenNotFound"
            /\ (req[r].pc = "lselect" /\ Steps(r)) =>
                   IF now <= ltokens[req[r].token].issued + 60 * 60
                   THEN req'[r].pc = "ldelete" => ltokens[req[r].token].live
                   ELSE req'[r].res = "ErrUserNotFound"
            /\ (req[r].res \in {"ErrTokenNotFound", "ErrUserNotFound"} /\ Steps(r)) =>
                   /\ req'[r].res = req[r].res
                   /\ UNCHANGED <<emails, sessions, vtokens, ltokens>>
       /\ \A t \in LTokens :
            (answer' # answer /\ answer'.op = "candidates" /\ answer'.body = "candidates") =>
                ltokens[t].live /\ now <= ltokens[t].issued + 60 * 60]_vars

\* a verification token and a login token were issued; after the end of
\* their validity a redemption of the first has failed and the second has no
\* candidates
C28_Witness ==
    /\ \E r \in Reqs :
          /\ req[r].kind = "verify" /\ req[r].res = "ErrTokenNotFound" /\ req[r].pc = "end"
          /\ vtokens[req[r].token].live
          /\ now > vtokens[req[r].token].issued + VerifyValidity
    /\ \E t \in LTokens : ltokens[t].live /\ now > ltokens[t].issued + LoginValidity
    /\ answer.op = "candidates"
    /\ answer.body = "InvalidRequest"

(***************************************************************************)
(* Properties of the removal of an e-mail address.                         *)
(***************************************************************************)
\* address e is listed for the account by UserInformation
Listed(e) ==
    \E i \in 1..Len(emails[Account][e]) :
        emails[Account][e][i] = NULL \/ emails[Account][e][i] >= now

\* C29: /email/remove of an address that is not active for the user answers
\* InvalidEmail and changes nothing; of an active address (delete_on NULL or
\* delete_on >= now) it succeeds and schedules the removal with
\* delete_on = now + deletion_grace.
C29_RemoveEmail ==
    [][\A k \in Sess : \A e \in Disclosed :
         /\ (InFlight(k, "removeemail", e, "lock") \in flight \ flight'
                /\ LoggedIn(k) /\ ~Listed(e)) =>
                /\ Responds(k, "removeemail") /\ answer'.body = "InvalidRequest"
                /\ emails' = emails
         /\ (InFlight(k, "removeemail", e, "remove") \in flight \ flight'
                /\ Listed(e)) =>
                /\ Responds(k, "removeemail") /\ answer'.body = "204"
                /\ \A i \in 1..Len(emails'[Account][e]) :
                      emails'[Account][e][i] = now + DeleteDelay]_vars

\* the login callback of session k with the given outcome ends in this step
LoginCallbackEnds(k, outcome) ==
    InFlight(k, "login", outcome, "fire") \in flight \ flight'

\* what the callback may do to the session it got, per outcome
LoginCallbackEffect(old, new, outcome) ==
    CASE outcome = "valid" /\ registered ->
             new.userID = Account /\ new.pendingError = old.pendingError
      [] outcome = "valid" /\ ~registered ->
             new.userID = old.userID /\ new.pendingError = "UserNotRegistered"
      [] outcome = "invalid" ->
             new.userID = old.userID /\ new.pendingError = "InvalidProofs"
      [] outcome = "unknown" ->
             new.userID = old.userID /\ new.pendingError = "UserNotRegistered"
      [] outcome = "dberror" ->
             new.userID = old.userID /\ new.pendingError = "Internal"
      [] outcome = "notdone" ->
             new.userID = old.userID /\ new.pendingError = old.pendingError

KeepsUserID(k) ==
    /\ HasSession(k)'
    /\ \E new \in sessions' : new.token = k /\ new.userID = Session(k).userID

\* C31: a successful /user/delete leaves the user row soft-deleted with
\* delete_on = now + the deletion delay, the userID of the requesting session
\* nil and the cookie cleared; when sending the notice fails or RemoveUser
\* fails the handler answers an internal error, the user row is as it was and
\* the session is still authenticated.
C31_DeleteUser ==
    [][\A k \in Sess : Responds(k, "deleteuser") =>
          /\ answer'.body = "204 cookie cleared" =>
                /\ coredata' = FALSE
                /\ delete_on' = now + DeleteDelay
                /\ \A new \in sessions' : new.token = k => new.userID = 0
          /\ answer'.body = "Internal" =>
                /\ UNCHANGED <<registered, coredata, delete_on>>
                /\ KeepsUserID(k)
                /\ Session(k).userID # 0]_vars

\* the row of login token t is in the table
Persists(t) == ltokens[t].live

\* C32: in /login/email the token insert and the mail send are in one
\* transaction that the first error rolls back: the row of a login token is
\* in the table only if the request that made it sent the mail and its
\* transaction committed, and after a request whose mail failed (or whose
\* commit failed) the token it inserted is not in the table.
C32_LoginEmailAtomic ==
    /\ \A t \in LTokens :
          Persists(t) => \E r \in Reqs : /\ req[r].kind = "email" /\ req[r].token = t
                                         /\ req[r].res = "ok"
                                         /\ tx[r] = "committed"
    /\ \A r \in Reqs :
          (req[r].kind = "email" /\ req[r].pc = "end"
              /\ (req[r].res # "ok" \/ tx[r] # "committed")) => ~Persists(req[r].token)

\* a /login/email request inserted its token, failed to send the mail and
\* has ended with an internal error, its transaction rolled back
C32_Witness ==
    \E r \in Reqs :
        /\ req[r].kind = "email" /\ req[r].pc = "end"
        /\ req[r].res = "error" /\ req[r].resp = "Internal"
        /\ tx[r] = "rolledback"
        /\ ltokens[req[r].token].expiry # 0
        /\ ~Persists(req[r].token)

\* C34: in every reachable state of the PIN controller a user whose block
\* date is in the future has used at least MAX_PIN_TRIES attempts since the
\* last clear, and the counter and the block date are never negative.
C34_BlockedOnlyAfterMaxTries ==
    /\ pin_block_date > now => pin_counter >= MAX_PIN_TRIES
    /\ pin_counter >= 0
    /\ pin_block_date >= 0

\* the user is blocked by the attempt that used up the tries
C34_Witness ==
    /\ registered
    /\ pin_block_date > now
    /\ pin_counter = MAX_PIN_TRIES

\* a handler behind sessionMiddleware that has taken the mutex of session k
\* reads *session.userID in this step
ReadsUserID(k) ==
    \E f \in flight \ flight' :
        /\ f.sess = k /\ f.at = "lock"
        /\ f.op \in {"userinfo", "deleteuser", "removeemail"}

\* C33: whenever a handler behind the session middleware reads its session's
\* userID, the userID is not nil, under every interleaving with /logout and
\* /user/delete requests that carry the same cookie: no logout comes between
\* the middleware's check and the handler's read.
C33_UserIDSetWhenRead ==
    [][\A k \in Sess : ReadsUserID(k) => Session(k).userID # 0]_vars

====
